---------------------------- MODULE Spec2Model ----------------------------
(***************************************************************************)
(* The job-sync pipeline of src/server.js (the syncJobs generation, lines  *)
(* 205-750): fetch, per-item organization resolution / company enrichment  *)
(* / classification, batch upsert into the jobs table and the per-company  *)
(* jobs_count refresh.                                                     *)
(*                                                                         *)
(* Text that the code slices, lowercases or searches (titles, names, ids,  *)
(* completions) is a sequence of one-character strings.  URLs are strings  *)
(* whose parse (new URL) is tabulated in URL_TABLE.  An optional field of   *)
(* a listing is <<>> when absent and <<v>> when present.                   *)
(***************************************************************************)
EXTENDS Integers, Sequences, FiniteSets, TLC

VARIABLES
  env,          \* which credentials the process environment holds
  clock,        \* the wall clock read by new Date(): it advances with every sequential
                \* step of a run; the concurrent count tasks of a run read one instant
  jobsTable,    \* the rows of the jobs table
  nextRowId,    \* the next id the jobs table assigns
  companies,    \* the records of the companies table
  run,          \* the state of the syncJobs invocation in each slot
  started,      \* how many invocations were started
  limits,       \* the scenario: how many runs, how many failing calls, overlapping or not,
                \* how long a fetched batch, which triggers
  storeFailed,  \* whether any store operation has returned an error
  faults,       \* how many collaborator calls have failed so far
  call          \* a helper function called on its own: its name, argument and result

vars ==
  <<env, clock, jobsTable, nextRowId, companies, run, started, limits, storeFailed, faults,
    call>>

-----------------------------------------------------------------------------
(* Bounds of the model *)

MaxBatch == 2

MaxRuns == 2

\* how many collaborator calls may fail in one behaviour
MaxFaults == 2

\* how many listings a fetch returns at most when invocations overlap
MaxOverlapBatch == 1

\* how many requests the read endpoints answer in one behaviour
MaxReads == 2

-----------------------------------------------------------------------------
(* Optional values and text helpers *)

None == <<>>

Some(v) == <<v>>

Has(f) == f # <<>>

Val(f) == f[1]

UpperChars ==
  <<"A", "B", "C", "D", "E", "F", "G", "H", "I", "J", "K", "L", "M", "N", "O", "P", "Q", "R", "S", "T", "U", "V", "W", "X", "Y", "Z">>

LowerChars ==
  <<"a", "b", "c", "d", "e", "f", "g", "h", "i", "j", "k", "l", "m", "n", "o", "p", "q", "r", "s", "t", "u", "v", "w", "x", "y", "z">>

LowerChar(c) ==
  IF \E k \in 1..26 : UpperChars[k] = c
  THEN LowerChars[CHOOSE k \in 1..26 : UpperChars[k] = c]
  ELSE c

UpperChar(c) ==
  IF \E k \in 1..26 : LowerChars[k] = c
  THEN UpperChars[CHOOSE k \in 1..26 : LowerChars[k] = c]
  ELSE c

toLowerCase(s) == [k \in 1..Len(s) |-> LowerChar(s[k])]

toUpperCase(s) == [k \in 1..Len(s) |-> UpperChar(s[k])]

IsLowerLetter(c) == \E k \in 1..26 : LowerChars[k] = c

IsWhitespace(c) == c \in {" ", "\n", "\t"}

\* String.prototype.includes
includes(text, keyword) ==
  \E k \in 0..(Len(text) - Len(keyword)) :
    \A j \in 1..Len(keyword) : text[k + j] = keyword[j]

\* String.prototype.substring(0, n)
substring0(s, n) == SubSeq(s, 1, IF Len(s) < n THEN Len(s) ELSE n)

\* String.prototype.slice(-n)
sliceLast(s, n) == SubSeq(s, IF Len(s) > n THEN Len(s) - n + 1 ELSE 1, Len(s))

RECURSIVE trimStart(_)
trimStart(s) ==
  IF s # <<>> /\ IsWhitespace(Head(s)) THEN trimStart(Tail(s)) ELSE s

RECURSIVE trimEnd(_)
trimEnd(s) ==
  IF s # <<>> /\ IsWhitespace(s[Len(s)]) THEN trimEnd(SubSeq(s, 1, Len(s) - 1)) ELSE s

trim(s) == trimEnd(trimStart(s))

\* A template literal renders null as the text "null"
NullText == <<"n", "u", "l", "l">>

Render(opt) == IF Has(opt) THEN Val(opt) ELSE NullText

\* JavaScript truthiness of an optional text
Truthy(opt) == Has(opt) /\ Val(opt) # <<>>

-----------------------------------------------------------------------------
(* Program constants *)

CYBER_KEYWORDS ==
  << <<"c", "y", "b", "e", "r", "s", "e", "c", "u", "r", "i", "t", "y">>,
     <<"i", "n", "f", "o", "r", "m", "a", "t", "i", "o", "n", " ", "s", "e", "c", "u", "r", "i", "t", "y">>,
     <<"i", "n", "f", "o", "s", "e", "c">>,
     <<"s", "o", "c">>,
     <<"s", "i", "e", "m">>,
     <<"g", "r", "c">>,
     <<"i", "a", "m">>,
     <<"a", "p", "p", "s", "e", "c">>,
     <<"c", "l", "o", "u", "d", " ", "s", "e", "c", "u", "r", "i", "t", "y">>,
     <<"p", "e", "n", "t", "e", "s", "t">>,
     <<"s", "e", "c", "u", "r", "i", "t", "y", " ", "e", "n", "g", "i", "n", "e", "e", "r">>,
     <<"s", "e", "c", "u", "r", "i", "t", "y", " ", "a", "n", "a", "l", "y", "s", "t">> >>

EXCLUDE_KEYWORDS ==
  << <<"p", "h", "y", "s", "i", "c", "a", "l", " ", "s", "e", "c", "u", "r", "i", "t", "y">>,
     <<"s", "e", "c", "u", "r", "i", "t", "y", " ", "g", "u", "a", "r", "d">>,
     <<"s", "u", "r", "v", "e", "i", "l", "l", "a", "n", "c", "e">> >>

JOB_CATEGORIES ==
  << <<"I", "N", "T", "E", "R", "N", "S", "H", "I", "P", "S">>,
     <<"D", "E", "V", "S", "E", "C", "O", "P", "S">>,
     <<"S", "E", "C", "U", "R", "I", "T", "Y", "-", "E", "N", "G", "I", "N", "E", "E", "R">>,
     <<"I", "N", "F", "O", "S", "E", "C">>,
     <<"A", "N", "A", "L", "Y", "S", "T">>,
     <<"C", "L", "O", "U", "D", "-", "S", "E", "C", "U", "R", "I", "T", "Y">>,
     <<"G", "R", "C">>,
     <<"P", "E", "N", "E", "T", "R", "A", "T", "I", "O", "N", "-", "T", "E", "S", "T", "I", "N", "G">>,
     <<"S", "A", "L", "E", "S">> >>

ORG_LOGO_SIZE == 256

TITLE_MAX == 255

COMPANY_MAX == 100

ID_SUFFIX_LEN == 8

-----------------------------------------------------------------------------
(* URL parsing: what new URL(text) yields for the URL texts of the model *)

URL_TABLE ==
  [u \in {"https://acme.com", "https://www.acme.com/careers", "https://beta.io",
          "https://x.com/apply", "http://jobs.acme.com/1", "ftp://x.com",
          "not a url"} |->
     CASE u = "https://acme.com" ->
            [ok |-> TRUE, protocol |-> "https:", hostname |-> <<"acme", "com">>]
       [] u = "https://www.acme.com/careers" ->
            [ok |-> TRUE, protocol |-> "https:", hostname |-> <<"www", "acme", "com">>]
       [] u = "https://beta.io" ->
            [ok |-> TRUE, protocol |-> "https:", hostname |-> <<"beta", "io">>]
       [] u = "https://x.com/apply" ->
            [ok |-> TRUE, protocol |-> "https:", hostname |-> <<"x", "com">>]
       [] u = "http://jobs.acme.com/1" ->
            [ok |-> TRUE, protocol |-> "http:", hostname |-> <<"jobs", "acme", "com">>]
       [] u = "ftp://x.com" ->
            [ok |-> TRUE, protocol |-> "ftp:", hostname |-> <<"x", "com">>]
       [] OTHER ->
            [ok |-> FALSE, protocol |-> "", hostname |-> <<>>]]

RECURSIVE JoinDots(_)
JoinDots(labels) ==
  IF Len(labels) = 0 THEN ""
  ELSE IF Len(labels) = 1 THEN labels[1]
  ELSE labels[1] \o "." \o JoinDots(Tail(labels))

\* extractDomain: the hostname without a leading "www." label; null when the
\* input is absent or does not parse.
extractDomain(inputUrl) ==
  IF ~Has(inputUrl) THEN None
  ELSE LET parsed == URL_TABLE[Val(inputUrl)]
       IN  IF ~parsed.ok THEN None
           ELSE Some(JoinDots(IF Len(parsed.hostname) > 1 /\ parsed.hostname[1] = "www"
                              THEN Tail(parsed.hostname)
                              ELSE parsed.hostname))

buildFaviconUrl(domain) ==
  IF ~Has(domain) THEN None
  ELSE Some("https://www.google.com/s2/favicons?domain=" \o Val(domain)
            \o "&sz=" \o ToString(ORG_LOGO_SIZE))

isValidApplyUrl(url) ==
  IF ~Has(url) THEN FALSE
  ELSE LET parsed == URL_TABLE[Val(url)]
       IN  parsed.ok /\ parsed.protocol \in {"http:", "https:"}

-----------------------------------------------------------------------------
(* Keyword filter and slug generator *)

\* A filter that looks for the include keywords first
isCybersecurityJobIncludeFirst(job) ==
  LET text == toLowerCase((IF Has(job.title) THEN Val(job.title) ELSE <<>>)
                          \o <<" ">>
                          \o (IF Has(job.description_text) THEN Val(job.description_text) ELSE <<>>))
      hasExclude == \E k \in 1..Len(EXCLUDE_KEYWORDS) : includes(text, EXCLUDE_KEYWORDS[k])
      hasInclude == \E k \in 1..Len(CYBER_KEYWORDS) : includes(text, CYBER_KEYWORDS[k])
  IN  hasInclude \/ (hasExclude /\ FALSE)

isCybersecurityJob(job) ==
  LET text == toLowerCase((IF Has(job.title) THEN Val(job.title) ELSE <<>>)
                          \o <<" ">>
                          \o (IF Has(job.description_text) THEN Val(job.description_text) ELSE <<>>))
      hasExclude == \E k \in 1..Len(EXCLUDE_KEYWORDS) : includes(text, EXCLUDE_KEYWORDS[k])
      hasInclude == \E k \in 1..Len(CYBER_KEYWORDS) : includes(text, CYBER_KEYWORDS[k])
  IN  IF hasExclude THEN FALSE ELSE hasInclude

RECURSIVE dropNonLetters(_)
dropNonLetters(s) ==
  IF s # <<>> /\ ~IsLowerLetter(Head(s)) THEN dropNonLetters(Tail(s)) ELSE s

\* .replace(/[^a-z]+/g, '-')
RECURSIVE replaceNonLetterRuns(_)
replaceNonLetterRuns(s) ==
  IF s = <<>> THEN <<>>
  ELSE IF IsLowerLetter(Head(s)) THEN <<Head(s)>> \o replaceNonLetterRuns(Tail(s))
  ELSE <<"-">> \o replaceNonLetterRuns(dropNonLetters(Tail(s)))

RECURSIVE stripLeadingDashes(_)
stripLeadingDashes(s) ==
  IF s # <<>> /\ Head(s) = "-" THEN stripLeadingDashes(Tail(s)) ELSE s

RECURSIVE stripTrailingDashes(_)
stripTrailingDashes(s) ==
  IF s # <<>> /\ s[Len(s)] = "-" THEN stripTrailingDashes(SubSeq(s, 1, Len(s) - 1)) ELSE s

generateSlug(text) ==
  IF ~Truthy(text) THEN None
  ELSE Some(stripTrailingDashes(stripLeadingDashes(
              replaceNonLetterRuns(toLowerCase(Val(text))))))

-----------------------------------------------------------------------------
(* The inputs of the model: listings the ingestion API may return and the   *)
(* answers the collaborators may give.                                      *)

TitleSoc == <<"S", "O", "C", " ", "A", "n", "a", "l", "y", "s", "t">>

TitleBarista == <<"B", "a", "r", "i", "s", "t", "a">>

OrgAcme == <<"A", "c", "m", "e", ",", " ", "I", "n", "c", ".", " ", "2", "0", "2", "4", "!">>

OrgBeta == <<"B", "e", "t", "a">>

IdA == <<"a", "1", "2", "3", "4", "5", "6", "7", "8">>

IdB == <<"b", "1", "2", "3", "4", "5", "6", "7", "8">>

IdShort == <<"7">>

ValidDate == [valid |-> TRUE, t |-> 0]

BaseListing ==
  [id |-> Some(IdA), title |-> Some(TitleSoc), organization |-> Some(OrgAcme),
   url |-> Some("https://x.com/apply"), description_text |-> None,
   organization_url |-> Some("https://acme.com"), organization_logo |-> None,
   domain_derived |-> None, date_posted |-> Some(ValidDate), date_created |-> None]

\* The listings a fetch may return.  1 and 2: same company and title, ids
\* that differ before their last eight characters.  3: no organization URL
\* (the search path), a title without any include keyword.  4: no title, an
\* ftp apply URL.  5: no id.
Listings ==
  << BaseListing,
     [BaseListing EXCEPT !.id = Some(IdB)],
     [BaseListing EXCEPT !.id = Some(IdShort), !.title = Some(TitleBarista),
                         !.organization = Some(OrgBeta),
                         !.url = Some("http://jobs.acme.com/1"),
                         !.organization_url = None,
                         !.organization_logo = Some("https://cdn.example/beta.png"),
                         !.date_posted = None],
     [BaseListing EXCEPT !.id = Some(IdShort), !.title = None, !.url = Some("ftp://x.com"),
                         !.organization_url = Some("https://www.acme.com/careers")],
     [BaseListing EXCEPT !.id = None, !.organization_url = Some("https://beta.io"),
                         !.organization = Some(OrgBeta)] >>

RECURSIVE SeqsUpTo(_, _)
SeqsUpTo(S, n) ==
  IF n = 0 THEN {<<>>}
  ELSE LET shorter == SeqsUpTo(S, n - 1)
       IN  shorter \cup {Append(s, x) : s \in shorter, x \in S}

\* The bodies a successful fetch may carry
FetchBodies == SeqsUpTo({Listings[k] : k \in 1..Len(Listings)}, MaxBatch)

\* err.response of a failed fetch: absent on a transport failure
FetchErrors ==
  { None,
    Some([status |-> 429, data |-> "Too many requests"]),
    Some([status |-> 403, data |-> "You are not subscribed to this API."]) }

\* The search API's answers: failed is a timeout or a non-2xx status;
\* organic is organic_results, each entry with or without a link.
SerpOutcomes ==
  { [failed |-> TRUE, organic |-> <<>>],
    [failed |-> FALSE, organic |-> <<None, Some("https://www.acme.com/careers")>>],
    [failed |-> FALSE, organic |-> <<Some("https://beta.io"), Some("https://acme.com")>>],
    [failed |-> FALSE, organic |-> <<Some("not a url")>>] }

NoSerp == [failed |-> FALSE, organic |-> <<>>]

\* The company-data API's answers: data is response.data
EnrichOutcomes ==
  { [failed |-> TRUE, data |-> None],
    [failed |-> FALSE, data |-> Some([description |-> "Security vendor"])] }

NoEnrich == [failed |-> FALSE, data |-> None]

\* The completion endpoint's answers: content is choices[0].message.content
CompletionOutcomes ==
  { [failed |-> TRUE, content |-> None],
    [failed |-> FALSE, content |-> Some(<<" ", "g", "r", "c", "\n">>)] }

NoCompletion == [failed |-> FALSE, content |-> None]

\* The completions classifyJobCategory is called on by itself: a failed
\* request (or a content that is not a string, on which trim throws), no
\* content, an empty one, a category exactly, in lower case with whitespace
\* around, inside a sentence, two categories, and unrecognized text
ClassifierCompletions ==
  CompletionOutcomes \cup
  { NoCompletion,
    [failed |-> FALSE, content |-> Some(<<>>)],
    [failed |-> FALSE, content |-> Some(<<"I", "N", "F", "O", "S", "E", "C">>)],
    [failed |-> FALSE, content |-> Some(<<" ", " ", "c", "l", "o", "u", "d", "-", "s", "e", "c", "u", "r", "i", "t", "y", " ", "\n">>)],
    [failed |-> FALSE, content |-> Some(<<"C", "a", "t", "e", "g", "o", "r", "y", ":", " ", "P", "e", "n", "e", "t", "r", "a", "t", "i", "o", "n", "-", "T", "e", "s", "t", "i", "n", "g", ".">>)],
    [failed |-> FALSE, content |-> Some(<<"G", "R", "C", " ", "o", "r", " ", "A", "N", "A", "L", "Y", "S", "T">>)],
    [failed |-> FALSE, content |-> Some(<<"I", " ", "c", "a", "n", "n", "o", "t", " ", "c", "l", "a", "s", "s", "i", "f", "y", " ", "t", "h", "i", "s", " ", "j", "o", "b", ".">>)],
    [failed |-> FALSE, content |-> Some(<<"a", "n", "a", "l", "y", "s", "t", "s">>)] }

\* Math.random().toString(36).substring(2, 10)
RandomBase36 == { <<"k", "3", "j", "9", "x", "0", "a", "b">> }

\* Math.random().toString()
RandomDecimal == { <<"0", ".", "2", "5">>, <<"0", ".", "7", "5">> }

Slots == {1, 2}

\* No helper is being called on its own
NoCall == [fn |-> "", phase |-> "", arg |-> <<>>, ret |-> <<>>]

\* Titles and descriptions for the keyword filter: with an include keyword,
\* with none, with an exclude keyword, with both, a word that merely
\* contains an include keyword, upper case, and halves of an exclude keyword
\* that the joining space completes
FilterTitles ==
  { None, Some(TitleSoc), Some(TitleBarista),
    Some(<<"S", "e", "c", "u", "r", "i", "t", "y", " ", "G", "u", "a", "r", "d">>),
    Some(<<"S", "E", "C", "U", "R", "I", "T", "Y", " ", "E", "N", "G", "I", "N", "E", "E", "R", " ", "(", "S", "u", "r", "v", "e", "i", "l", "l", "a", "n", "c", "e", ")">>),
    Some(<<"S", "a", "l", "e", "s", " ", "A", "s", "s", "o", "c", "i", "a", "t", "e">>),
    Some(<<"P", "h", "y", "s", "i", "c", "a", "l">>),
    Some(<<"C", "Y", "B", "E", "R", "S", "E", "C", "U", "R", "I", "T", "Y", " ", "L", "e", "a", "d">>) }

FilterDescriptions ==
  { None,
    Some(<<"W", "e", " ", "r", "u", "n", " ", "a", " ", "S", "I", "E", "M", ".">>),
    Some(<<"s", "e", "c", "u", "r", "i", "t", "y", " ", "g", "u", "a", "r", "d", " ", "d", "u", "t", "i", "e", "s">>),
    Some(<<"S", "e", "r", "v", "e", " ", "c", "o", "f", "f", "e", "e">>),
    Some(<<"V", "i", "d", "e", "o", " ", "s", "u", "r", "v", "e", "i", "l", "l", "a", "n", "c", "e", " ", "a", "n", "d", " ", "p", "e", "n", "t", "e", "s", "t">>),
    Some(<<"S", "e", "c", "u", "r", "i", "t", "y", " ", "A", "n", "a", "l", "y", "s", "t", " ", "w", "a", "n", "t", "e", "d">>),
    Some(<<"g", "u", "a", "r", "d">>),
    Some(<<>>) }

FilterInputs ==
  {[BaseListing EXCEPT !.title = title, !.description_text = description] :
     title \in FilterTitles, description \in FilterDescriptions}

Environments ==
  [RAPIDAPI_KEY : BOOLEAN, SERPAPI_KEY : BOOLEAN,
   COMPANY_ENRICH_API_KEY : BOOLEAN, GROQ_API_KEY : BOOLEAN]

-----------------------------------------------------------------------------
(* The external calls, each as a function of the collaborator's answer *)

\* A classifier that falls back to a category when the call fails
classifyJobCategoryFallback(completion) ==
  IF ~env.GROQ_API_KEY THEN None
  ELSE IF completion.failed \/ ~Has(completion.content) THEN Some(JOB_CATEGORIES[4])
  ELSE LET rawCategory == toUpperCase(trim(Val(completion.content)))
           matches == {k \in 1..Len(JOB_CATEGORIES) : includes(rawCategory, JOB_CATEGORIES[k])}
       IN  IF matches = {} THEN None
           ELSE Some(JOB_CATEGORIES[CHOOSE k \in matches : \A m \in matches : k <= m])

\* A classifier that returns the completion's text without validating it
classifyJobCategoryRaw(completion) ==
  IF ~env.GROQ_API_KEY THEN None
  ELSE IF completion.failed THEN None
  ELSE IF ~Has(completion.content) THEN None
  ELSE LET rawCategory == toUpperCase(trim(Val(completion.content)))
       IN  IF rawCategory = <<>> THEN None ELSE Some(rawCategory)

\* classifyJobCategory: null without the credential or on any failure; else
\* the first category the trimmed, uppercased completion equals or contains.
classifyJobCategory(completion) ==
  IF ~env.GROQ_API_KEY THEN None
  ELSE IF completion.failed THEN None
  ELSE IF ~Has(completion.content) THEN None
  ELSE LET rawCategory == toUpperCase(trim(Val(completion.content)))
           matches == {k \in 1..Len(JOB_CATEGORIES) :
                         rawCategory = JOB_CATEGORIES[k]
                         \/ includes(rawCategory, JOB_CATEGORIES[k])}
       IN  IF matches = {} THEN None
           ELSE Some(JOB_CATEGORIES[CHOOSE k \in matches : \A m \in matches : k <= m])

\* A classifier that posts to the completion endpoint whatever the environment
classifyCallsAlways(job) == TRUE

\* whether classifyJobCategory issues the completion call: if (!GROQ_API_KEY) return null
classifyCalls(job) == env.GROQ_API_KEY

firstLink(organic) ==
  LET withLink == {k \in 1..Len(organic) : Has(organic[k])}
  IN  IF withLink = {} THEN None
      ELSE organic[CHOOSE k \in withLink : \A m \in withLink : k <= m]

fetchOrganizationUrlFromSerpApi(organization, serp) ==
  IF ~env.SERPAPI_KEY \/ organization = <<>> THEN None
  ELSE IF serp.failed THEN None
  ELSE firstLink(serp.organic)

\* A resolver that searches even for a listing that names its organization URL
searchCallsAlways(job) == env.SERPAPI_KEY /\ Truthy(job.organization)

\* whether resolveOrganizationUrls issues the search call for this listing
searchCalls(job) ==
  /\ ~Has(job.organization_url)
  /\ env.SERPAPI_KEY
  /\ Truthy(job.organization)

resolveOrganizationUrls(job, serp) ==
  LET orgUrl == job.organization_url
      logoFromOrgUrl == buildFaviconUrl(extractDomain(orgUrl))
  IN  IF Has(orgUrl) \/ ~env.SERPAPI_KEY
      THEN [organizationUrl |-> orgUrl,
            organizationLogoUrl |-> IF Has(job.organization_logo)
                                    THEN job.organization_logo ELSE logoFromOrgUrl]
      ELSE LET serpOrgUrl == fetchOrganizationUrlFromSerpApi(
                               IF Has(job.organization) THEN Val(job.organization) ELSE <<>>,
                               serp)
               serpLogoUrl == buildFaviconUrl(extractDomain(serpOrgUrl))
           IN  [organizationUrl |-> serpOrgUrl,
                organizationLogoUrl |-> IF Has(job.organization_logo)
                                        THEN job.organization_logo ELSE serpLogoUrl]

\* An enricher that calls the company-data API without looking at the credential
enrichCallsAlways(companyDomain) == Has(companyDomain)

\* whether fetchCompanyDetails issues the company-data call:
\* if (!COMPANY_ENRICH_API_KEY || !companyDomain) return null
enrichCalls(companyDomain) == env.COMPANY_ENRICH_API_KEY /\ Has(companyDomain)

fetchCompanyDetails(companyDomain, enrich) ==
  IF ~env.COMPANY_ENRICH_API_KEY \/ ~Has(companyDomain) THEN None
  ELSE IF enrich.failed THEN None
  ELSE enrich.data

-----------------------------------------------------------------------------
(* normalizeSalary *)

\* A JavaScript scalar: null/undefined, a finite number (its integer part and
\* the digits of its fraction), a non-finite number, or a string
Null == [kind |-> "null", num |-> 0, frac |-> <<>>, text |-> <<>>]

Num(n) == [kind |-> "number", num |-> n, frac |-> <<>>, text |-> <<>>]

Decimal(n, frac) == [kind |-> "number", num |-> n, frac |-> frac, text |-> <<>>]

NaN == [kind |-> "nan", num |-> 0, frac |-> <<>>, text |-> <<>>]

Str(chars) == [kind |-> "string", num |-> 0, frac |-> <<>>, text |-> chars]

\* a ?? b
Coalesce(a, b) == IF a.kind # "null" THEN a ELSE b

\* JavaScript truthiness of a scalar
TruthyValue(v) ==
  \/ v.kind = "number" /\ (v.num # 0 \/ v.frac # <<>>)
  \/ v.kind = "string" /\ v.text # <<>>

\* v || undefined
OrUndefined(v) == IF TruthyValue(v) THEN v ELSE Null

DigitChars == <<"0", "1", "2", "3", "4", "5", "6", "7", "8", "9">>

IsDigit(c) == \E k \in 1..10 : DigitChars[k] = c

DigitValue(c) == (CHOOSE k \in 1..10 : DigitChars[k] = c) - 1

RECURSIVE ParseDigits(_)
ParseDigits(s) ==
  IF s = <<>> THEN 0 ELSE 10 * ParseDigits(SubSeq(s, 1, Len(s) - 1)) + DigitValue(s[Len(s)])

RECURSIVE stripTrailingZeros(_)
stripTrailingZeros(s) ==
  IF s # <<>> /\ s[Len(s)] = "0" THEN stripTrailingZeros(SubSeq(s, 1, Len(s) - 1)) ELSE s

\* String(value) of a scalar that is not a finite number
StringOf(v) ==
  IF v.kind = "string" THEN v.text ELSE <<"N", "a", "N">>

\* Number(cleaned) of a text of digits and dots: the empty text is 0, a text
\* with two dots or a lone dot is NaN
NumberOf(cleaned) ==
  LET dots == {k \in 1..Len(cleaned) : cleaned[k] = "."}
  IN  IF dots = {} THEN Num(ParseDigits(cleaned))
      ELSE IF Cardinality(dots) > 1 \/ Len(cleaned) = 1 THEN NaN
      ELSE LET d == CHOOSE k \in dots : TRUE
           IN  Decimal(ParseDigits(SubSeq(cleaned, 1, d - 1)),
                       stripTrailingZeros(SubSeq(cleaned, d + 1, Len(cleaned))))

\* toNumber: null stays null, a finite number is itself, anything else is
\* its text without the characters other than digits and dots, as a number
toNumber(value) ==
  IF value.kind = "null" THEN Null
  ELSE IF value.kind = "number" THEN value
  ELSE LET cleaned == SelectSeq(StringOf(value), LAMBDA c : IsDigit(c) \/ c = ".")
           parsed == NumberOf(cleaned)
       IN  IF parsed.kind = "number" THEN parsed ELSE Null

\* The value of an object's value field: absent, a scalar, or an object with
\* minValue, maxValue, value and unitText
NoMonetaryValue ==
  [kind |-> "null", scalar |-> Null, minValue |-> Null, maxValue |-> Null,
   value |-> Null, unitText |-> Null]

\* A raw salary: absent, a string, or an object with currency and value that
\* may refer to itself (circular)
NoRaw ==
  [kind |-> "null", text |-> <<>>, currency |-> Null, value |-> NoMonetaryValue,
   circular |-> FALSE]

RawString(chars) == [NoRaw EXCEPT !.kind = "string", !.text = chars]

RawObject(currency, value, circular) ==
  [NoRaw EXCEPT !.kind = "object", !.currency = currency, !.value = value,
                !.circular = circular]

\* a ?? b on raw salaries
CoalesceRaw(a, b) == IF a.kind # "null" THEN a ELSE b

\* raw || undefined
RawOrUndefined(raw) ==
  IF raw.kind = "null" \/ (raw.kind = "string" /\ raw.text = <<>>) THEN NoRaw ELSE raw

\* A listing as normalizeSalary reads it
NoSalary ==
  [salary_raw |-> NoRaw, salary |-> NoRaw, compensation |-> NoRaw,
   ai_salary_currency |-> Null, ai_salary_value |-> Null, ai_salary_minvalue |-> Null,
   ai_salary_maxvalue |-> Null, ai_salary_unittext |-> Null,
   salary_min |-> Null, salary_min_derived |-> Null, salary_range_min |-> Null,
   salary_from |-> Null,
   salary_max |-> Null, salary_max_derived |-> Null, salary_range_max |-> Null,
   salary_to |-> Null,
   salary_currency |-> Null, currency |-> Null, compensation_currency |-> Null,
   salary_period |-> Null, salary_unit |-> Null, compensation_period |-> Null]

SALARY_MAX == 255

\* const raw = job.salary_raw ?? job.salary ?? job.compensation ?? null
rawOf(job) == CoalesceRaw(job.salary_raw, CoalesceRaw(job.salary, job.compensation))

rawIsObject(job) == rawOf(job).kind = "object"

monetaryValue(job) == IF rawIsObject(job) THEN rawOf(job).value ELSE NoMonetaryValue

valueIsObject(job) == monetaryValue(job).kind = "object"

\* A chain that asks the nested object before the flat fields
resolveMinNestedFirst(job) ==
  Coalesce(IF valueIsObject(job) THEN monetaryValue(job).minValue ELSE Null,
    Coalesce(job.salary_min, Coalesce(job.salary_min_derived,
      Coalesce(job.salary_range_min, Coalesce(job.salary_from, job.ai_salary_minvalue)))))

\* const min = job.salary_min ?? ... ?? (valueIsObject ? monetaryValue.minValue : null) ?? aiMin
resolveMin(job) ==
  Coalesce(job.salary_min, Coalesce(job.salary_min_derived, Coalesce(job.salary_range_min,
    Coalesce(job.salary_from,
      Coalesce(IF valueIsObject(job) THEN monetaryValue(job).minValue ELSE Null,
               job.ai_salary_minvalue)))))

resolveMax(job) ==
  Coalesce(job.salary_max, Coalesce(job.salary_max_derived, Coalesce(job.salary_range_max,
    Coalesce(job.salary_to,
      Coalesce(IF valueIsObject(job) THEN monetaryValue(job).maxValue ELSE Null,
               job.ai_salary_maxvalue)))))

resolveCurrency(job) ==
  Coalesce(job.salary_currency, Coalesce(job.currency, Coalesce(job.compensation_currency,
    Coalesce(IF rawIsObject(job) THEN rawOf(job).currency ELSE Null,
             job.ai_salary_currency))))

resolvePeriod(job) ==
  Coalesce(job.salary_period, Coalesce(job.salary_unit, Coalesce(job.compensation_period,
    Coalesce(IF valueIsObject(job) THEN monetaryValue(job).unitText ELSE Null,
             job.ai_salary_unittext))))

\* What normalizeSalary returns or throws: null, a string (text), the JSON
\* text of the canonical object (json, with the fields it holds; a field left
\* undefined is Null), the JSON text of the raw value (jsonOfRaw), or the
\* TypeError of JSON.stringify on a circular object (throws)
SalaryResult(kind) ==
  [kind |-> kind, min |-> Null, max |-> Null, currency |-> Null, period |-> Null,
   raw |-> NoRaw, text |-> <<>>]

normalizeSalary(job) ==
  LET raw == rawOf(job)
      value == IF valueIsObject(job) THEN monetaryValue(job).value ELSE Null
      currency == resolveCurrency(job)
      period == resolvePeriod(job)
      minNum == toNumber(Coalesce(resolveMin(job), Coalesce(value, job.ai_salary_value)))
      maxNum == toNumber(resolveMax(job))
  IN  IF TruthyValue(minNum) \/ TruthyValue(maxNum) \/ TruthyValue(currency)
         \/ TruthyValue(period)
      THEN IF raw.circular THEN SalaryResult("throws")
           ELSE [SalaryResult("json") EXCEPT !.min = OrUndefined(minNum),
                                             !.max = OrUndefined(maxNum),
                                             !.currency = OrUndefined(currency),
                                             !.period = OrUndefined(period),
                                             !.raw = RawOrUndefined(raw)]
      ELSE IF raw.kind = "null" THEN SalaryResult("null")
      ELSE IF raw.kind = "string"
      THEN [SalaryResult("text") EXCEPT !.text = substring0(raw.text, SALARY_MAX)]
      ELSE IF raw.circular
      THEN [SalaryResult("text") EXCEPT !.text = substring0(<<"[", "o", "b", "j", "e", "c", "t", " ", "O", "b", "j", "e", "c", "t", "]">>, SALARY_MAX)]
      ELSE [SalaryResult("jsonOfRaw") EXCEPT !.raw = raw]

\* The listings normalizeSalary is called on: a flat salary_min (absent, a
\* number, a formatted string, zero), a raw salary (absent, a short and a
\* long string, an object with currency and a nested value, a bare object,
\* an object whose value holds a single value, and the first two objects
\* referring to themselves), AI-derived min and max or none, a flat currency
\* or none
NestedValue ==
  [kind |-> "object", scalar |-> Null, minValue |-> Num(60000), maxValue |-> Num(90000),
   value |-> Null, unitText |-> Str(<<"Y", "E", "A", "R">>)]

SalaryMins == {Null, Num(50000), Str(<<"$", "5", "0", ",", "0", "0", "0">>), Num(0)}

SalaryRaws ==
  { NoRaw,
    RawString(<<"C", "o", "m", "p", "e", "t", "i", "t", "i", "v", "e">>),
    RawString([k \in 1..300 |-> "x"]),
    RawObject(Str(<<"U", "S", "D">>), NestedValue, FALSE),
    RawObject(Null, NoMonetaryValue, FALSE),
    RawObject(Null, [NoMonetaryValue EXCEPT !.kind = "object", !.value = Num(55000)], FALSE),
    RawObject(Str(<<"U", "S", "D">>), NestedValue, TRUE),
    RawObject(Null, NoMonetaryValue, TRUE) }

SalaryInputs ==
  {[NoSalary EXCEPT !.salary_min = min, !.salary_raw = raw,
                    !.ai_salary_minvalue = ai[1], !.ai_salary_maxvalue = ai[2],
                    !.salary_currency = currency] :
     min \in SalaryMins, raw \in SalaryRaws,
     ai \in {<<Null, Null>>, <<Num(70000), Num(80000)>>},
     currency \in {Null, Str(<<"G", "B", "P">>)}}

-----------------------------------------------------------------------------
(* The persistence store: the jobs table and the companies table *)

InSeq(x, s) == \E k \in 1..Len(s) : s[k] = x

\* A plain insert, as in the earlier pipeline's .insert(normalizedJobs): it
\* always adds a row.
insertJobRow(table, rec, rowId) == table \cup {[rec EXCEPT !.id = rowId]}

\* One record written by upsert(..., { onConflict: 'external_job_id' }): the
\* row with that external_job_id takes every column of the record and keeps
\* its id; without such a row a new row is inserted.
upsertJobRow(table, rec, rowId) ==
  IF \E row \in table : row.external_job_id = rec.external_job_id
  THEN {IF row.external_job_id = rec.external_job_id
        THEN [rec EXCEPT !.id = row.id] ELSE row : row \in table}
  ELSE table \cup {[rec EXCEPT !.id = rowId]}

\* A batch written with plain inserts
RECURSIVE insertJobs(_, _, _)
insertJobs(table, records, rowId) ==
  IF records = <<>> THEN table
  ELSE insertJobs(insertJobRow(table, Head(records), rowId), Tail(records), rowId + 1)

RECURSIVE upsertJobs(_, _, _)
upsertJobs(table, records, rowId) ==
  IF records = <<>> THEN table
  ELSE upsertJobs(upsertJobRow(table, Head(records), rowId), Tail(records), rowId + 1)

\* The store refuses a batch that names one conflict key twice (ON CONFLICT
\* DO UPDATE cannot affect a row a second time).
distinctKeys(records) ==
  \A a, b \in 1..Len(records) :
    a # b => records[a].external_job_id # records[b].external_job_id

\* An upsert whose payload carried jobs_count: the stored record is replaced
upsertCompanyOverwriting(table, payload) ==
  {c \in table : c.organization_url # payload.organization_url} \cup {payload}

\* upsert(payload, { onConflict: 'organization_url' }): the payload carries no
\* jobs_count, so an existing record keeps its own and a new one starts at 0.
upsertCompany(table, payload) ==
  IF \E c \in table : c.organization_url = payload.organization_url
  THEN {IF c.organization_url = payload.organization_url
        THEN [payload EXCEPT !.jobs_count = c.jobs_count] ELSE c : c \in table}
  ELSE table \cup {[payload EXCEPT !.jobs_count = 0]}

countJobs(table, organizationUrl) ==
  Cardinality({row \in table : row.organization_url = Some(organizationUrl)})

updateJobsCount(table, organizationUrl, count, now) ==
  {IF c.organization_url = organizationUrl
   THEN [c EXCEPT !.jobs_count = count, !.updated_at = now] ELSE c : c \in table}

-----------------------------------------------------------------------------
(* syncJobs: the pieces of one run *)

Event(op, item, url) == [op |-> op, item |-> item, url |-> url]

\* The local state of one invocation, with the trigger that made it and the
\* response that trigger sent.  pc .. error are the program's; trace
\* (the calls issued, in order), outcomes (the organization URL each iteration
\* resolved and which of its calls failed), the failed mark of a count task,
\* the tables as they were when the run started, the failures seen and the
\* previous invocation's batch are history kept for the properties.
IdleRun ==
  [pc |-> "idle", jobs |-> <<>>, filteredJobs |-> <<>>, i |-> 0,
   processedCompanies |-> <<>>, normalizedJobs |-> <<>>, tasks |-> {},
   upserted |-> 0, result |-> None, error |-> None, errorAt |-> "",
   trace |-> <<>>, outcomes |-> <<>>, jobsAtStart |-> {}, companiesAtStart |-> {},
   fetchFailed |-> FALSE, fetchErr |-> None, upsertFailed |-> FALSE,
   prev |-> [done |-> FALSE, jobs |-> <<>>],
   trigger |-> "", response |-> None]

InProgress == {"fetching", "processing", "upserting", "counting"}

\* const filteredJobs = jobs;
filterJobs(jobs) == jobs

\* The filter of the earlier pipeline generation (the /sync handler before
\* syncJobs): title, organization and url present, keyword filter, URL check.
passesFilter(job) ==
  /\ Truthy(job.title)
  /\ Truthy(job.organization)
  /\ Has(job.url)
  /\ isCybersecurityJob(job)
  /\ isValidApplyUrl(job.url)

strictFilterJobs(jobs) == SelectSeq(jobs, passesFilter)

configError ==
  [name |-> "Error", message |-> "RAPIDAPI_KEY is missing in .env",
   status |-> None, body |-> None]

\* A rapidError that forgets err.response
rapidErrorBare(response) ==
  [name |-> "Error", message |-> "RapidAPI error", status |-> None, body |-> None]

\* rapidError.status = err.response?.status; rapidError.body = err.response?.data
rapidError(response) ==
  [name |-> "Error", message |-> "RapidAPI error",
   status |-> IF Has(response) THEN Some(Val(response).status) ELSE None,
   body |-> IF Has(response) THEN Some(Val(response).data) ELSE None]

databaseError ==
  [name |-> "Error", message |-> "Database error", status |-> None, body |-> None]

thrown(name) == [name |-> name, message |-> "", status |-> None, body |-> None]

\* job.id?.toString() || <random>
idOrRandom(job, random) == IF Truthy(job.id) THEN Val(job.id) ELSE random

jobSlugOf(companySlug, jobTitleSlug, idSuffix) ==
  IF Truthy(companySlug) /\ Truthy(jobTitleSlug)
  THEN Val(companySlug) \o <<"-">> \o Val(jobTitleSlug) \o <<"-">> \o idSuffix
  ELSE Render(jobTitleSlug) \o <<"-">> \o idSuffix

\* The check without the dedup set
isNewCompanyNoDedup(organizationUrl, processedCompanies) == Has(organizationUrl)

\* if (organizationUrl && !processedCompanies.has(organizationUrl))
isNewCompany(organizationUrl, processedCompanies) ==
  Has(organizationUrl) /\ ~InSeq(Val(organizationUrl), processedCompanies)

\* The delay awaited after the last listing too
delayAfterEvery(i, n) == env.GROQ_API_KEY /\ i < n

\* if (GROQ_API_KEY && i < filteredJobs.length - 1)
delayAwaited(i, n) == env.GROQ_API_KEY /\ i < n - 1

\* new Date(job.date_posted || job.date_created || new Date())
postedSource(job, now) ==
  IF Has(job.date_posted) THEN Val(job.date_posted)
  ELSE IF Has(job.date_created) THEN Val(job.date_created)
  ELSE [valid |-> TRUE, t |-> now]

\* new Date(job.date_created || new Date())
updatedSource(job, now) ==
  IF Has(job.date_created) THEN Val(job.date_created) ELSE [valid |-> TRUE, t |-> now]

\* What assembling the record throws, if anything: job.title.substring on an
\* absent title, toISOString on an invalid date.
pushThrows(job, now) ==
  IF ~Has(job.title) THEN "TypeError"
  ELSE IF ~postedSource(job, now).valid \/ ~updatedSource(job, now).valid THEN "RangeError"
  ELSE ""

companyPayload(organizationUrl, companyName, companySlug, companyData, now) ==
  [organization_url |-> organizationUrl,
   company_name |-> IF Truthy(companyName)
                    THEN Some(substring0(Val(companyName), COMPANY_MAX)) ELSE None,
   company_slug |-> companySlug,
   about |-> IF Has(companyData) THEN Some(Val(companyData).description) ELSE None,
   updated_at |-> now,
   jobs_count |-> 0]

\* Everything one loop iteration computes from the listing and the answers
\* of the collaborators.
itemOf(job, i, n, processedCompanies, now, serp, enrich, completion, rand36, randDec) ==
  LET resolved == resolveOrganizationUrls(job, serp)
      organizationUrl == resolved.organizationUrl
      companyName == IF Truthy(job.organization)
                     THEN Some(substring0(Val(job.organization), COMPANY_MAX)) ELSE None
      companyDomain == IF Has(job.domain_derived) THEN job.domain_derived
                       ELSE extractDomain(organizationUrl)
      companySlug == generateSlug(companyName)
      jobTitleSlug == generateSlug(job.title)
      externalId == idOrRandom(job, rand36)
      idSuffix == sliceLast(externalId, ID_SUFFIX_LEN)
      newCompany == isNewCompany(organizationUrl, processedCompanies)
      upsertIssued == newCompany /\ Has(companyDomain)
      companyData == fetchCompanyDetails(companyDomain, enrich)
  IN  [organizationUrl |-> organizationUrl,
       newCompany |-> newCompany,
       upsertIssued |-> upsertIssued,
       enrichCalled |-> upsertIssued /\ enrichCalls(companyDomain),
       payload |-> companyPayload(IF Has(organizationUrl) THEN Val(organizationUrl) ELSE "",
                                  companyName, companySlug, companyData, now),
       delay |-> delayAwaited(i, n),
       throws |-> pushThrows(job, now),
       record |->
         [id |-> 0,
          title |-> IF Has(job.title) THEN substring0(Val(job.title), TITLE_MAX) ELSE <<>>,
          company |-> companyName,
          company_slug |-> companySlug,
          job_slug |-> jobSlugOf(companySlug, jobTitleSlug, idSuffix),
          category |-> classifyJobCategory(completion),
          apply_url |-> job.url,
          external_job_id |-> idOrRandom(job, randDec),
          posted_at |-> postedSource(job, now).t,
          last_updated |-> updatedSource(job, now).t,
          organization_url |-> organizationUrl,
          organization_logo_url |-> resolved.organizationLogoUrl,
          created_at |-> now,
          updated_at |-> now]]

\* The calls one iteration issues, in order
itemEvents(job, i, item) ==
  (IF searchCalls(job) THEN <<Event("search", i, "")>> ELSE <<>>)
  \o (IF item.enrichCalled THEN <<Event("enrich", i, item.payload.organization_url)>> ELSE <<>>)
  \o (IF item.upsertIssued
      THEN <<Event("companyUpsert", i, item.payload.organization_url)>> ELSE <<>>)
  \o (IF classifyCalls(job) THEN <<Event("classify", i, "")>> ELSE <<>>)
  \o (IF item.delay THEN <<Event("delay", i, "")>> ELSE <<>>)

countEvents(urls) == [k \in 1..Len(urls) |-> Event("count", 0, urls[k])]

successResult(r) ==
  [fetched |-> Len(r.jobs), filtered |-> Len(r.filteredJobs), upserted |-> r.upserted]

\* A Promise.all that rejects when a count task failed
afterTasksRejecting(r) ==
  IF \E t \in r.tasks : t.failed
  THEN [r EXCEPT !.pc = "error", !.error = Some(databaseError), !.errorAt = "counting"]
  ELSE IF \A t \in r.tasks : t.state = "finished"
  THEN [r EXCEPT !.pc = "done", !.result = Some(successResult(r))]
  ELSE r

\* The run after Promise.all over the count tasks: it returns once none is
\* left (updateCompanyJobsCount logs its failures and never rejects)
afterTasks(r) ==
  IF \A t \in r.tasks : t.state = "finished"
  THEN [r EXCEPT !.pc = "done", !.result = Some(successResult(r))]
  ELSE r

-----------------------------------------------------------------------------
(* The triggers: the daily schedule and GET /sync *)

Triggers == {"cron", "sync"}

\* A handler that answers every failure with the generic response
syncRouteGeneric(r) ==
  IF r.pc = "done"
  THEN [code |-> 200, message |-> "Sync completed", error |-> "", status |-> None,
        details |-> None, result |-> r.result]
  ELSE [code |-> 500, message |-> "", error |-> "Sync failed", status |-> None,
        details |-> Some(Val(r.error).message), result |-> None]

\* app.get('/sync'): the response for a run that returned or threw
syncRoute(r) ==
  IF r.pc = "done"
  THEN [code |-> 200, message |-> "Sync completed", error |-> "", status |-> None,
        details |-> None, result |-> r.result]
  ELSE LET error == Val(r.error)
       IN  IF Has(error.status) /\ Val(error.status) # 0
           THEN [code |-> 502, message |-> "", error |-> "Sync failed",
                 status |-> error.status, details |-> error.body, result |-> None]
           ELSE [code |-> 500, message |-> "", error |-> "Sync failed", status |-> None,
                 details |-> Some(error.message), result |-> None]

\* The trigger of a run that has returned or thrown: GET /sync sends its
\* response; the schedule's callback logs the result or the caught error and
\* sends nothing.
settle(r) ==
  IF r.pc \in {"done", "error"} /\ r.trigger = "sync"
  THEN [r EXCEPT !.response = Some(syncRoute(r))]
  ELSE r

-----------------------------------------------------------------------------
(* The state machine *)

Init ==
  /\ env \in Environments
  /\ clock = 0
  /\ jobsTable = {}
  /\ nextRowId = 1
  /\ companies = {}
  /\ run = [s \in Slots |-> IdleRun]
  /\ started = 0
  /\ limits = [runs |-> 1, faults |-> MaxFaults, overlap |-> FALSE, batch |-> MaxBatch,
               triggers |-> Triggers]
  /\ storeFailed = FALSE
  /\ faults = 0
  /\ call = NoCall

\* The call of the batch upsert, issued when the loop is over
issueUpsert(r) ==
  [r EXCEPT !.pc = "upserting", !.trace = Append(r.trace, Event("jobsUpsert", 0, ""))]

\* A trigger (the daily schedule or GET /sync) invokes syncJobs: the
\* credential check, then the fetch call.
StartRun(s) ==
  /\ run[s].pc \notin InProgress
  /\ started < limits.runs
  /\ ~limits.overlap => (s = 1 /\ \A o \in Slots : run[o].pc \notin InProgress)
  /\ started' = started + 1
  /\ clock' = clock + 1
  /\ \E trigger \in limits.triggers :
       LET fresh == [IdleRun EXCEPT !.jobsAtStart = jobsTable,
                                    !.companiesAtStart = companies,
                                    !.prev = [done |-> run[s].pc = "done",
                                              jobs |-> run[s].jobs],
                                    !.trigger = trigger]
       IN  run' = [run EXCEPT ![s] =
                     IF ~env.RAPIDAPI_KEY
                     THEN settle([fresh EXCEPT !.pc = "error", !.error = Some(configError),
                                               !.errorAt = "fetching"])
                     ELSE [fresh EXCEPT !.pc = "fetching",
                                        !.trace = <<Event("fetch", 0, "")>>]]
  /\ UNCHANGED <<call, env, jobsTable, nextRowId, companies, limits, storeFailed, faults>>

\* The fetch call fails: the run throws rapidError
FetchFails(s) ==
  /\ run[s].pc = "fetching"
  /\ faults < limits.faults
  /\ faults' = faults + 1
  /\ \E response \in FetchErrors :
       run' = [run EXCEPT ![s] = settle([@ EXCEPT !.pc = "error",
                                                  !.error = Some(rapidError(response)),
                                                  !.errorAt = "fetching",
                                                  !.fetchFailed = TRUE,
                                                  !.fetchErr = response])]
  /\ clock' = clock + 1
  /\ UNCHANGED <<call, env, jobsTable, nextRowId, companies, started, limits, storeFailed>>

\* The fetch call answers: jobs, filteredJobs, and the loop starts (or, with
\* nothing to process, the batch upsert is issued at once)
FetchReturns(s) ==
  /\ run[s].pc = "fetching"
  /\ \E body \in {b \in FetchBodies : Len(b) <= limits.batch} :
       LET r == [run[s] EXCEPT !.jobs = body, !.filteredJobs = filterJobs(body)]
       IN  run' = [run EXCEPT ![s] =
                     IF Len(r.filteredJobs) = 0 THEN issueUpsert(r)
                     ELSE [r EXCEPT !.pc = "processing"]]
  /\ clock' = clock + 1
  /\ UNCHANGED <<call, env, jobsTable, nextRowId, companies, started, limits, storeFailed, faults>>

\* One iteration of the loop over filteredJobs
ProcessItem(s) ==
  /\ run[s].pc = "processing"
  /\ LET r == run[s]
         job == r.filteredJobs[r.i + 1]
         n == Len(r.filteredJobs)
         now == clock + 1
     IN  \E serp \in (IF searchCalls(job) THEN SerpOutcomes ELSE {NoSerp}),
            rand36 \in (IF Truthy(job.id) THEN {<<>>} ELSE RandomBase36),
            randDec \in (IF Truthy(job.id) THEN {<<>>} ELSE RandomDecimal) :
           LET pre == itemOf(job, r.i, n, r.processedCompanies, now,
                             serp, NoEnrich, NoCompletion, rand36, randDec)
           IN  \E enrich \in (IF pre.enrichCalled THEN EnrichOutcomes ELSE {NoEnrich}),
                  companyUpsertOk \in (IF pre.upsertIssued THEN BOOLEAN ELSE {TRUE}),
                  completion \in (IF classifyCalls(job) THEN CompletionOutcomes
                                  ELSE {NoCompletion}) :
                 LET item == itemOf(job, r.i, n, r.processedCompanies, now,
                                    serp, enrich, completion, rand36, randDec)
                     failed == (IF serp.failed THEN 1 ELSE 0) + (IF enrich.failed THEN 1 ELSE 0)
                               + (IF companyUpsertOk THEN 0 ELSE 1)
                               + (IF completion.failed THEN 1 ELSE 0)
                     r1 == [r EXCEPT
                              !.processedCompanies =
                                 IF item.newCompany
                                 THEN Append(@, Val(item.organizationUrl)) ELSE @,
                              !.trace = @ \o itemEvents(job, r.i, item),
                              !.outcomes = Append(@,
                                 [organizationUrl |-> item.organizationUrl,
                                  searchFailed |-> searchCalls(job) /\ serp.failed,
                                  enrichFailed |-> item.enrichCalled /\ enrich.failed,
                                  companyUpsertFailed |-> item.upsertIssued /\ ~companyUpsertOk,
                                  classifyFailed |-> classifyCalls(job) /\ completion.failed])]
                     r2 == IF item.throws # ""
                           THEN [r1 EXCEPT !.pc = "error", !.error = Some(thrown(item.throws)),
                                           !.errorAt = "processing"]
                           ELSE LET r3 == [r1 EXCEPT !.normalizedJobs = Append(@, item.record),
                                                     !.i = @ + 1]
                                IN  IF r3.i = n THEN issueUpsert(r3) ELSE r3
                 IN  /\ faults + failed <= limits.faults
                     /\ faults' = faults + failed
                     /\ run' = [run EXCEPT ![s] = settle(r2)]
                     /\ companies' = IF item.upsertIssued /\ companyUpsertOk
                                     THEN upsertCompany(companies, item.payload)
                                     ELSE companies
                     /\ storeFailed' = (storeFailed \/ (item.upsertIssued /\ ~companyUpsertOk))
  /\ clock' = clock + 1
  /\ UNCHANGED <<call, env, jobsTable, nextRowId, started, limits>>

\* A batch-upsert error that is only logged, the way the company upsert's is
UpsertFailsLogged(s) ==
  /\ run[s].pc = "upserting"
  /\ faults < limits.faults
  /\ faults' = faults + 1
  /\ storeFailed' = TRUE
  /\ clock' = clock + 1
  /\ LET r == run[s]
         urls == r.processedCompanies
     IN  run' = [run EXCEPT ![s] =
                   settle(afterTasks([r EXCEPT !.pc = "counting", !.upsertFailed = TRUE,
                                        !.tasks = {[url |-> urls[k], state |-> "counting",
                                                    count |-> 0, failed |-> FALSE]
                                                   : k \in 1..Len(urls)},
                                        !.trace = @ \o countEvents(urls)]))]
  /\ UNCHANGED <<call, env, jobsTable, nextRowId, companies, started, limits>>

\* The batch upsert returns an error: the run throws
UpsertFails(s) ==
  /\ run[s].pc = "upserting"
  /\ run' = [run EXCEPT ![s] = settle([@ EXCEPT !.pc = "error",
                                                !.error = Some(databaseError),
                                                !.errorAt = "upserting",
                                                !.upsertFailed = TRUE])]
  /\ storeFailed' = TRUE
  /\ faults < limits.faults
  /\ faults' = faults + 1
  /\ clock' = clock + 1
  /\ UNCHANGED <<call, env, jobsTable, nextRowId, companies, started, limits>>

\* The batch upsert succeeds: one count task starts per processed company
UpsertReturns(s) ==
  /\ run[s].pc = "upserting"
  /\ distinctKeys(run[s].normalizedJobs)
  /\ jobsTable' = upsertJobs(jobsTable, run[s].normalizedJobs, nextRowId)
  /\ nextRowId' = nextRowId + Len(run[s].normalizedJobs)
  /\ LET r == run[s]
         urls == r.processedCompanies
     IN  run' = [run EXCEPT ![s] =
                   settle(afterTasks([r EXCEPT !.pc = "counting",
                                        !.upserted = Len(r.normalizedJobs),
                                        !.tasks = {[url |-> urls[k], state |-> "counting",
                                                    count |-> 0, failed |-> FALSE]
                                                   : k \in 1..Len(urls)},
                                        !.trace = @ \o countEvents(urls)]))]
  /\ clock' = clock + 1
  /\ UNCHANGED <<call, env, companies, started, limits, storeFailed, faults>>

\* updateCompanyJobsCount, first half: the count query answers
CountReturns(s) ==
  /\ run[s].pc = "counting"
  /\ \E t \in run[s].tasks, ok \in BOOLEAN :
       /\ t.state = "counting"
       /\ LET t2 == IF ok
                    THEN [t EXCEPT !.state = "updating",
                                   !.count = countJobs(jobsTable, t.url)]
                    ELSE [t EXCEPT !.state = "finished", !.failed = TRUE]
              r == run[s]
          IN  run' = [run EXCEPT ![s] =
                        settle(afterTasks([r EXCEPT
                          !.tasks = (@ \ {t}) \cup {t2},
                          !.trace = IF ok THEN Append(@, Event("update", 0, t.url)) ELSE @]))]
       /\ storeFailed' = (storeFailed \/ ~ok)
       /\ ~ok => faults < limits.faults
       /\ faults' = IF ok THEN faults ELSE faults + 1
  /\ UNCHANGED <<call, env, clock, jobsTable, nextRowId, companies, started, limits>>

\* updateCompanyJobsCount, second half: the update answers
UpdateReturns(s) ==
  /\ run[s].pc = "counting"
  /\ \E t \in run[s].tasks, ok \in BOOLEAN :
       /\ t.state = "updating"
       /\ companies' = IF ok THEN updateJobsCount(companies, t.url, t.count, clock)
                       ELSE companies
       /\ run' = [run EXCEPT ![s] =
                    settle(afterTasks([@ EXCEPT !.tasks = (@ \ {t})
                                           \cup {[t EXCEPT !.state = "finished",
                                                           !.failed = ~ok]}]))]
       /\ storeFailed' = (storeFailed \/ ~ok)
       /\ ~ok => faults < limits.faults
       /\ faults' = IF ok THEN faults ELSE faults + 1
  /\ UNCHANGED <<call, env, clock, jobsTable, nextRowId, started, limits>>

Next ==
  \E s \in Slots :
    \/ StartRun(s)
    \/ FetchFails(s)
    \/ FetchReturns(s)
    \/ ProcessItem(s)
    \/ UpsertFails(s)
    \/ UpsertReturns(s)
    \/ CountReturns(s)
    \/ UpdateReturns(s)

\* One invocation of syncJobs on an empty store, with up to MaxFaults failing
\* collaborator calls
Spec == Init /\ [][Next]_vars

\* Up to MaxRuns invocations, one after the other, every collaborator
\* answering, with the enrichment credential and without the classifier's
InitResync ==
  /\ env \in {e \in Environments :
                e.RAPIDAPI_KEY /\ e.COMPANY_ENRICH_API_KEY /\ ~e.GROQ_API_KEY}
  /\ clock = 0
  /\ jobsTable = {}
  /\ nextRowId = 1
  /\ companies = {}
  /\ run = [s \in Slots |-> IdleRun]
  /\ started = 0
  /\ limits = [runs |-> MaxRuns, faults |-> 0, overlap |-> FALSE, batch |-> MaxBatch,
               triggers |-> {"sync"}]
  /\ storeFailed = FALSE
  /\ faults = 0
  /\ call = NoCall

NextResync ==
  \E s \in Slots :
    \/ StartRun(s)
    \/ FetchReturns(s)
    \/ ProcessItem(s)
    \/ UpsertReturns(s)
    \/ CountReturns(s)
    \/ UpdateReturns(s)

SpecResync == InitResync /\ [][NextResync]_vars

\* Up to MaxRuns invocations that may overlap (the daily schedule firing while
\* a GET /sync run is in flight, or two GET /sync requests), every
\* collaborator answering
InitOverlap ==
  /\ env \in {e \in Environments : e.RAPIDAPI_KEY /\ ~e.GROQ_API_KEY}
  /\ clock = 0
  /\ jobsTable = {}
  /\ nextRowId = 1
  /\ companies = {}
  /\ run = [s \in Slots |-> IdleRun]
  /\ started = 0
  /\ limits = [runs |-> MaxRuns, faults |-> 0, overlap |-> TRUE, batch |-> MaxOverlapBatch,
               triggers |-> {"sync"}]
  /\ storeFailed = FALSE
  /\ faults = 0
  /\ call = NoCall

NextOverlap ==
  \E s \in Slots :
    \/ StartRun(s)
    \/ FetchReturns(s)
    \/ ProcessItem(s)
    \/ UpsertReturns(s)
    \/ CountReturns(s)
    \/ UpdateReturns(s)

SpecOverlap == InitOverlap /\ [][NextOverlap]_vars

-----------------------------------------------------------------------------
(* The helper functions called on their own *)

InitHelpers ==
  /\ env \in {e \in Environments :
                e.RAPIDAPI_KEY /\ e.SERPAPI_KEY /\ e.COMPANY_ENRICH_API_KEY}
  /\ clock = 0
  /\ jobsTable = {}
  /\ nextRowId = 1
  /\ companies = {}
  /\ run = [s \in Slots |-> IdleRun]
  /\ started = 0
  /\ limits = [runs |-> 0, faults |-> 0, overlap |-> FALSE, batch |-> 0, triggers |-> {}]
  /\ storeFailed = FALSE
  /\ faults = 0
  /\ \/ \E job \in FilterInputs :
          call = [fn |-> "isCybersecurityJob", phase |-> "called", arg |-> job, ret |-> <<>>]
     \/ \E job \in SalaryInputs :
          call = [fn |-> "normalizeSalary", phase |-> "called", arg |-> job, ret |-> <<>>]
     \/ \E completion \in ClassifierCompletions :
          call = [fn |-> "classifyJobCategory", phase |-> "called", arg |-> completion,
                  ret |-> <<>>]

CallIsCybersecurityJob ==
  /\ call.fn = "isCybersecurityJob"
  /\ call.phase = "called"
  /\ call' = [call EXCEPT !.phase = "returned", !.ret = isCybersecurityJob(call.arg)]
  /\ UNCHANGED <<env, clock, jobsTable, nextRowId, companies, run, started, limits,
                 storeFailed, faults>>

CallNormalizeSalary ==
  /\ call.fn = "normalizeSalary"
  /\ call.phase = "called"
  /\ call' = [call EXCEPT !.phase = "returned", !.ret = normalizeSalary(call.arg)]
  /\ UNCHANGED <<env, clock, jobsTable, nextRowId, companies, run, started, limits,
                 storeFailed, faults>>

CallClassifyJobCategory ==
  /\ call.fn = "classifyJobCategory"
  /\ call.phase = "called"
  /\ call' = [call EXCEPT !.phase = "returned", !.ret = classifyJobCategory(call.arg)]
  /\ UNCHANGED <<env, clock, jobsTable, nextRowId, companies, run, started, limits,
                 storeFailed, faults>>

NextHelpers ==
  \/ CallIsCybersecurityJob
  \/ CallNormalizeSalary
  \/ CallClassifyJobCategory

SpecHelpers == InitHelpers /\ [][NextHelpers]_vars

-----------------------------------------------------------------------------
(* The read endpoints: GET /jobs, GET /jobs/:id, GET /health *)

\* What an endpoint sends: the status code and, of the body, the fields it
\* has (data: the rows of GET /jobs; row: the row of GET /jobs/:id)
NoResponse ==
  [code |-> 0, data |-> <<>>, row |-> None, error |-> "", status |-> "", timestamp |-> 0]

\* No request was answered yet; n counts the requests answered, ok tells
\* whether the store answered the last one
NoRead == [fn |-> "", n |-> 0, arg |-> 0, ok |-> TRUE, ret |-> NoResponse]

RECURSIVE Orderings(_)
Orderings(rows) ==
  IF rows = {} THEN {<<>>}
  ELSE UNION {{<<row>> \o rest : rest \in Orderings(rows \ {row})} : row \in rows}

\* An ordering by posting time, earliest first
orderByPostedAtAscending(table) ==
  {data \in Orderings(table) :
     \A a, b \in 1..Len(data) : a < b => data[a].posted_at <= data[b].posted_at}

\* .order('posted_at', { ascending: false }): the rows, latest first; rows
\* posted at the same time come in any order
orderByPostedAt(table) ==
  {data \in Orderings(table) :
     \A a, b \in 1..Len(data) : a < b => data[a].posted_at >= data[b].posted_at}

\* The ids GET /jobs/:id is asked for
RequestIds == 1..(MaxBatch + 1)

\* app.get('/jobs'): the rows in order, or 500 when the store returns an error
GetJobs ==
  /\ call.n < MaxReads
  /\ \E ok \in BOOLEAN :
       IF ok
       THEN \E data \in orderByPostedAt(jobsTable) :
              call' = [fn |-> "getJobs", n |-> call.n + 1, arg |-> 0, ok |-> TRUE,
                       ret |-> [NoResponse EXCEPT !.code = 200, !.data = data]]
       ELSE call' = [fn |-> "getJobs", n |-> call.n + 1, arg |-> 0, ok |-> FALSE,
                     ret |-> [NoResponse EXCEPT !.code = 500, !.error = "Database error"]]
  /\ UNCHANGED <<env, clock, jobsTable, nextRowId, companies, run, started, limits,
                 storeFailed, faults>>

\* app.get('/jobs/:id'): .eq('id', id).single() answers with the one row of
\* that id; without such a row, or when the store fails, it answers with an
\* error and the endpoint sends 404
GetJobById ==
  /\ call.n < MaxReads
  /\ \E id \in RequestIds, ok \in BOOLEAN :
       LET found == {row \in jobsTable : row.id = id}
       IN  call' = [fn |-> "getJobById", n |-> call.n + 1, arg |-> id, ok |-> ok,
                    ret |-> IF ok /\ Cardinality(found) = 1
                            THEN [NoResponse EXCEPT !.code = 200,
                                                    !.row = Some(CHOOSE row \in found : TRUE)]
                            ELSE [NoResponse EXCEPT !.code = 404,
                                                    !.error = "Job not found"]]
  /\ UNCHANGED <<env, clock, jobsTable, nextRowId, companies, run, started, limits,
                 storeFailed, faults>>

\* app.get('/health')
GetHealth ==
  /\ call.n < MaxReads
  /\ call' = [fn |-> "getHealth", n |-> call.n + 1, arg |-> 0, ok |-> TRUE,
              ret |-> [NoResponse EXCEPT !.code = 200, !.status = "ok",
                                         !.timestamp = clock]]
  /\ UNCHANGED <<env, clock, jobsTable, nextRowId, companies, run, started, limits,
                 storeFailed, faults>>

\* One invocation of syncJobs, every collaborator answering, while the read
\* endpoints answer up to MaxReads requests
InitRead ==
  /\ env \in {e \in Environments :
                e.RAPIDAPI_KEY /\ e.COMPANY_ENRICH_API_KEY /\ ~e.GROQ_API_KEY
                /\ ~e.SERPAPI_KEY}
  /\ clock = 0
  /\ jobsTable = {}
  /\ nextRowId = 1
  /\ companies = {}
  /\ run = [s \in Slots |-> IdleRun]
  /\ started = 0
  /\ limits = [runs |-> 1, faults |-> 0, overlap |-> FALSE, batch |-> MaxBatch,
               triggers |-> {"sync"}]
  /\ storeFailed = FALSE
  /\ faults = 0
  /\ call = NoRead

NextRead ==
  \/ \E s \in Slots :
       \/ StartRun(s)
       \/ FetchReturns(s)
       \/ ProcessItem(s)
       \/ UpsertReturns(s)
       \/ CountReturns(s)
       \/ UpdateReturns(s)
  \/ GetJobs
  \/ GetJobById
  \/ GetHealth

SpecRead == InitRead /\ [][NextRead]_vars

-----------------------------------------------------------------------------
(* Properties *)

PastLoop(r) == r.pc \in {"upserting", "counting", "done"} \/ r.upsertFailed

EventsOf(trace, op) == SelectSeq(trace, LAMBDA e : e.op = op)

EventsFor(trace, op, url) == SelectSeq(trace, LAMBDA e : e.op = op /\ e.url = url)

AllCarryId(jobs) == \A k \in 1..Len(jobs) : Truthy(jobs[k].id)

RowsWith(table, externalId) == {row \in table : row.external_job_id = externalId}

\* C1: when syncJobs has run twice in sequence on the same batch of listings
\* that all carry an external id (both runs completing), the jobs table holds
\* exactly one row for each external id of the batch, that row is the row the
\* first run left (no row was added), and its updated_at is newer than it was
\* after the first run.
C1_ResyncOverwrites ==
  \A s \in Slots :
    LET r == run[s]
    IN  (r.pc = "done" /\ r.prev.done /\ r.prev.jobs = r.jobs /\ AllCarryId(r.jobs)) =>
          /\ Cardinality(jobsTable) = Cardinality(r.jobsAtStart)
          /\ \A k \in 1..Len(r.jobs) :
               LET now == RowsWith(jobsTable, Val(r.jobs[k].id))
                   before == RowsWith(r.jobsAtStart, Val(r.jobs[k].id))
               IN  /\ Cardinality(now) = 1
                   /\ Cardinality(before) = 1
                   /\ \A a \in now, b \in before :
                        a.id = b.id /\ a.updated_at > b.updated_at

C1_Witness ==
  \E s \in Slots :
    /\ run[s].pc = "done"
    /\ run[s].prev.done
    /\ run[s].prev.jobs = run[s].jobs
    /\ Len(run[s].jobs) = 2
    /\ AllCarryId(run[s].jobs)

\* C2: whenever no run is in progress and no store operation has failed,
\* every company record's jobs_count is the number of job rows that carry
\* its organization URL.
C2_JobsCountMatches ==
  ((\A s \in Slots : run[s].pc \notin InProgress) /\ ~storeFailed) =>
    \A c \in companies : c.jobs_count = countJobs(jobsTable, c.organization_url)

\* C3: the listings a run processes are exactly the fetched listings with a
\* title, an organization and a URL that pass the keyword filter and the URL
\* validator, and the reported filtered count is their number.
C3_OnlyFilteredListingsProcessed ==
  \A s \in Slots :
    LET r == run[s]
    IN  /\ r.pc \in {"processing", "upserting", "counting", "done"} =>
             r.filteredJobs = strictFilterJobs(r.jobs)
        /\ r.pc = "done" =>
             Val(r.result).filtered = Len(strictFilterJobs(r.jobs))

\* C4: two listings of a run with the same company and the same title but
\* different external ids get different job slugs.
C4_JobSlugsDiffer ==
  \A s \in Slots :
    LET r == run[s]
    IN  \A a, b \in 1..Len(r.normalizedJobs) :
          (/\ Truthy(r.filteredJobs[a].id)
           /\ Truthy(r.filteredJobs[b].id)
           /\ r.filteredJobs[a].id # r.filteredJobs[b].id
           /\ r.filteredJobs[a].organization = r.filteredJobs[b].organization
           /\ r.filteredJobs[a].title = r.filteredJobs[b].title)
          => r.normalizedJobs[a].job_slug # r.normalizedJobs[b].job_slug

\* C5: a run ends in error only from the fetching step or the batch-upserting
\* step, never during per-item processing or the aggregate update.
C5_ErrorOnlyFromFetchOrUpsert ==
  \A s \in Slots :
    run[s].pc = "error" => run[s].errorAt \in {"fetching", "upserting"}

OnlyFetchIssued(trace) == \A k \in 1..Len(trace) : trace[k].op = "fetch"

\* C6: a run that fails in the fetching step ends in error having issued no
\* search, enrichment, classification or store call and having changed
\* neither table; without the ingestion credential not even the fetch call is
\* issued; when the fetch call fails, the raised error carries the upstream
\* response's status and body.
C6_FetchFailureIsClean ==
  \A s \in Slots :
    LET r == run[s]
    IN  (r.fetchFailed \/ (r.pc = "error" /\ r.errorAt = "fetching")) =>
          /\ r.pc = "error"
          /\ r.result = None
          /\ OnlyFetchIssued(r.trace)
          /\ jobsTable = r.jobsAtStart
          /\ companies = r.companiesAtStart
          /\ ~env.RAPIDAPI_KEY => (r.trace = <<>> /\ Val(r.error) = configError)
          /\ r.fetchFailed =>
               /\ Len(r.trace) = 1
               /\ Val(r.error).status =
                    (IF Has(r.fetchErr) THEN Some(Val(r.fetchErr).status) ELSE None)
               /\ Val(r.error).body =
                    (IF Has(r.fetchErr) THEN Some(Val(r.fetchErr).data) ELSE None)

C6_Witness ==
  \E s \in Slots :
    /\ run[s].fetchFailed
    /\ Has(run[s].fetchErr)
    /\ Val(run[s].error).status = Some(429)

\* C7: when the batch upsert returns a store error the run ends in error: it
\* returns no result, the upsert was issued once, no jobs-count query or
\* update is issued, and the jobs table is as it was when the run started.
C7_UpsertFailureAborts ==
  \A s \in Slots :
    LET r == run[s]
    IN  r.upsertFailed =>
          /\ r.pc = "error"
          /\ r.errorAt = "upserting"
          /\ r.result = None
          /\ Len(EventsOf(r.trace, "jobsUpsert")) = 1
          /\ EventsOf(r.trace, "count") = <<>>
          /\ EventsOf(r.trace, "update") = <<>>
          /\ r.tasks = {}
          /\ jobsTable = r.jobsAtStart

C7_Witness ==
  \E s \in Slots :
    /\ run[s].upsertFailed
    /\ Len(run[s].normalizedJobs) = 2
    /\ run[s].processedCompanies # <<>>

CompanyOf(url) == {c \in companies : c.organization_url = url}

UrlsOf(trace) == {trace[k].url : k \in 1..Len(trace)}

\* C9: within one run the company-enrichment call and the company upsert are
\* issued at most once per organization URL, and every run issues them anew:
\* a run past its loop has upserted each organization URL of its records
\* (that has a domain) exactly once, whatever earlier runs did.
C9_EnrichOncePerRun ==
  \A s \in Slots :
    LET r == run[s]
    IN  /\ \A u \in UrlsOf(r.trace) :
             /\ Len(EventsFor(r.trace, "enrich", u)) <= 1
             /\ Len(EventsFor(r.trace, "companyUpsert", u)) <= 1
        /\ r.pc = "fetching" => r.processedCompanies = <<>>
        /\ PastLoop(r) =>
             \A k \in 1..Len(r.normalizedJobs) :
               LET url == r.normalizedJobs[k].organization_url
                   job == r.filteredJobs[k]
               IN  (Has(url) /\ (Has(job.domain_derived) \/ Has(extractDomain(url)))) =>
                     /\ Len(EventsFor(r.trace, "companyUpsert", Val(url))) = 1
                     /\ Len(EventsFor(r.trace, "enrich", Val(url)))
                          = (IF env.COMPANY_ENRICH_API_KEY THEN 1 ELSE 0)

C9_Witness ==
  \E s \in Slots :
    LET r == run[s]
    IN  /\ r.pc = "done"
        /\ Len(r.normalizedJobs) = 2
        /\ r.normalizedJobs[1].organization_url = r.normalizedJobs[2].organization_url
        /\ Has(r.normalizedJobs[1].organization_url)
        /\ \E c \in r.companiesAtStart :
             c.organization_url = Val(r.normalizedJobs[1].organization_url)
        /\ Len(EventsFor(r.trace, "enrich", Val(r.normalizedJobs[1].organization_url))) = 1

ClassifyAndDelay(trace) == SelectSeq(trace, LAMBDA e : e.op \in {"classify", "delay"})

\* C10: with the language-model credential, classifier calls and delays
\* alternate, starting with a call, each delay following the call of the same
\* listing; a run past its loop over n >= 1 listings has made n calls and
\* awaited n - 1 delays, the last event being a call, whether or not the calls
\* succeeded.  Without the credential no delay is awaited.
C10_DelayBetweenClassifierCalls ==
  \A s \in Slots :
    LET r == run[s]
        f == ClassifyAndDelay(r.trace)
        n == Len(r.filteredJobs)
    IN  /\ ~env.GROQ_API_KEY => f = <<>>
        /\ \A k \in 1..Len(f) :
             /\ f[k].op = (IF k % 2 = 1 THEN "classify" ELSE "delay")
             /\ f[k].op = "delay" => f[k].item = f[k - 1].item
        /\ (PastLoop(r) /\ env.GROQ_API_KEY /\ n >= 1) =>
             /\ Len(EventsOf(r.trace, "classify")) = n
             /\ Len(EventsOf(r.trace, "delay")) = n - 1
             /\ f[Len(f)].op = "classify"
        /\ (PastLoop(r) /\ n = 0) => f = <<>>

C10_Witness ==
  \E s \in Slots :
    /\ run[s].pc = "done"
    /\ Len(run[s].filteredJobs) = 2
    /\ run[s].outcomes[1].classifyFailed
    /\ Len(EventsOf(run[s].trace, "delay")) = 1

-----------------------------------------------------------------------------
(* Overlapping invocations *)

BothDone == \A s \in Slots : run[s].pc = "done"

\* Both invocations started before either had stored its batch
Overlapped ==
  /\ BothDone
  /\ \A s \in Slots : run[s].jobs # <<>> /\ run[s].jobsAtStart = {}

IdsOf(jobs) == {Val(jobs[k].id) : k \in 1..Len(jobs)}

\* C11: when two invocations of syncJobs that may overlap have fetched the
\* same listings, all carrying an id, and both are done, the jobs table holds
\* exactly one row for each distinct external id, whatever the interleaving;
\* each run enriches and upserts an organization URL at most once (and both
\* runs may do so for the same URL, see the witness).
C11_OverlapOneRowPerId ==
  (/\ BothDone
   /\ run[1].jobs = run[2].jobs
   /\ AllCarryId(run[1].jobs))
  => /\ \A x \in IdsOf(run[1].jobs) : Cardinality(RowsWith(jobsTable, x)) = 1
     /\ Cardinality(jobsTable) = Cardinality(IdsOf(run[1].jobs))
     /\ \A s \in Slots : \A u \in UrlsOf(run[s].trace) :
          /\ Len(EventsFor(run[s].trace, "enrich", u)) <= 1
          /\ Len(EventsFor(run[s].trace, "companyUpsert", u)) <= 1

\* Two overlapping runs on one listing: one row, the company enriched and
\* upserted by both
C11_Witness ==
  /\ Overlapped
  /\ run[1].jobs = run[2].jobs
  /\ AllCarryId(run[1].jobs)
  /\ Cardinality(jobsTable) = 1
  /\ \E u \in UrlsOf(run[1].trace) :
       \A s \in Slots :
         /\ Len(EventsFor(run[s].trace, "enrich", u)) = 1
         /\ Len(EventsFor(run[s].trace, "companyUpsert", u)) = 1

-----------------------------------------------------------------------------
(* Degradation without credentials *)

\* C12: without the language-model credential every record a run produces
\* has a null category, and the run issues no call to the completion
\* endpoint (and awaits no delay).
C12_NoCredentialNoClassification ==
  ~env.GROQ_API_KEY =>
    \A s \in Slots :
      /\ \A k \in 1..Len(run[s].normalizedJobs) : run[s].normalizedJobs[k].category = None
      /\ EventsOf(run[s].trace, "classify") = <<>>
      /\ EventsOf(run[s].trace, "delay") = <<>>
      /\ \A row \in jobsTable : row.category = None

\* A run without the credential that stored two records
C12_Witness ==
  /\ ~env.GROQ_API_KEY
  /\ run[1].pc = "done"
  /\ Len(run[1].normalizedJobs) = 2
  /\ Cardinality(jobsTable) = 2

\* The search calls the run issued in iteration i
SearchesOf(r, i) == SelectSeq(r.trace, LAMBDA e : e.op = "search" /\ e.item = i)

\* The listings of the pool, each also without its logo and without its
\* organization URL
ListingVariants ==
  LET pool == {Listings[k] : k \in 1..Len(Listings)}
  IN  pool \cup {[j EXCEPT !.organization_logo = None] : j \in pool}
           \cup {[j EXCEPT !.organization_url = None] : j \in pool}
           \cup {[j EXCEPT !.organization_url = None, !.organization_logo = None] : j \in pool}

\* C13: resolveOrganizationUrls issues no search call for a listing that
\* carries an organization URL; for a listing without one and without the
\* search credential it issues no search call and returns a null URL and the
\* listing's own logo (null if it has none); a search call is issued only
\* for a listing without an organization URL while the credential is set,
\* and at most once per listing.
C13_SearchOnlyAsFallback ==
  /\ \A s \in Slots : \A i \in 0..(Len(run[s].outcomes) - 1) :
       LET job == run[s].filteredJobs[i + 1]
           n == Len(SearchesOf(run[s], i))
       IN  /\ n <= 1
           /\ n = 1 => (~Has(job.organization_url) /\ env.SERPAPI_KEY)
           /\ Has(job.organization_url) => n = 0
           /\ (~Has(job.organization_url) /\ ~env.SERPAPI_KEY) =>
                /\ n = 0
                /\ i < Len(run[s].normalizedJobs) =>
                     /\ run[s].normalizedJobs[i + 1].organization_url = None
                     /\ run[s].normalizedJobs[i + 1].organization_logo_url
                          = job.organization_logo
  /\ \A job \in ListingVariants : \A serp \in SerpOutcomes \cup {NoSerp} :
       /\ Has(job.organization_url) =>
            /\ ~searchCalls(job)
            /\ resolveOrganizationUrls(job, serp).organizationUrl = job.organization_url
       /\ (~Has(job.organization_url) /\ ~env.SERPAPI_KEY) =>
            /\ ~searchCalls(job)
            /\ resolveOrganizationUrls(job, serp)
                 = [organizationUrl |-> None, organizationLogoUrl |-> job.organization_logo]
       /\ searchCalls(job) => (~Has(job.organization_url) /\ env.SERPAPI_KEY)

\* Without the search credential, a run that processed a listing with an
\* organization URL and then one without: no search, and the second record
\* has a null URL and the listing's own logo
C13_Witness ==
  /\ ~env.SERPAPI_KEY
  /\ run[1].pc = "done"
  /\ Len(run[1].normalizedJobs) = 2
  /\ Has(run[1].filteredJobs[1].organization_url)
  /\ ~Has(run[1].filteredJobs[2].organization_url)
  /\ Has(run[1].filteredJobs[2].organization_logo)
  /\ run[1].normalizedJobs[2].organization_url = None
  /\ run[1].normalizedJobs[2].organization_logo_url = run[1].filteredJobs[2].organization_logo
  /\ EventsOf(run[1].trace, "search") = <<>>

-----------------------------------------------------------------------------
(* The company enricher *)

\* The calls of kind op the run issued in iteration i
CallsOf(r, op, i) == SelectSeq(r.trace, LAMBDA e : e.op = op /\ e.item = i)

\* The organization URL iteration i of the run resolved
ResolvedUrl(r, i) == r.outcomes[i + 1].organizationUrl

\* The URL of iteration i was resolved by an earlier iteration of the run
SeenEarlier(r, i) == \E j \in 0..(i - 1) : ResolvedUrl(r, j) = ResolvedUrl(r, i)

\* companyDomain of iteration i: job.domain_derived || extractDomain(organizationUrl)
DomainKnown(r, i) ==
  Has(r.filteredJobs[i + 1].domain_derived) \/ Has(extractDomain(ResolvedUrl(r, i)))

C14_WitnessNoDomain ==
  \E i \in 0..(Len(run[1].outcomes) - 1) :
    Has(ResolvedUrl(run[1], i)) /\ ~DomainKnown(run[1], i)

-----------------------------------------------------------------------------
(* The jobs-count refresh *)

\* The distinct organization URLs the iterations of the run resolved
ResolvedUrls(r) ==
  {Val(r.outcomes[k].organizationUrl) :
     k \in {j \in 1..Len(r.outcomes) : Has(r.outcomes[j].organizationUrl)}}

\* C15: after a successful batch upsert one jobs-count recomputation is
\* started for every distinct organization URL the run resolved; a failure
\* of the count or of the update of one of them never ends the run in error
\* and leaves the others running; when all are finished the run is done with
\* fetched, filtered and upserted as counted before them; and the final
\* jobs_count of every record depends only on which recomputations failed,
\* not on their order: the number of stored rows for a recomputation that
\* succeeded, the value before the run for one that failed.
C15_CountRefreshIsBestEffort ==
  \A s \in Slots :
    LET r == run[s]
    IN  /\ r.errorAt # "counting"
        /\ r.pc \in {"counting", "done"} =>
             /\ {t.url : t \in r.tasks} = ResolvedUrls(r)
             /\ Cardinality(r.tasks) = Cardinality(ResolvedUrls(r))
             /\ \A u \in ResolvedUrls(r) : Len(EventsFor(r.trace, "count", u)) = 1
             /\ r.upserted = Len(r.normalizedJobs)
        /\ r.pc = "counting" => \E t \in r.tasks : t.state # "finished"
        /\ r.pc = "done" =>
             /\ \A t \in r.tasks : t.state = "finished"
             /\ r.result = Some([fetched |-> Len(r.jobs), filtered |-> Len(r.filteredJobs),
                                 upserted |-> Len(r.normalizedJobs)])
             /\ r.companiesAtStart = {} =>
                  \A t \in r.tasks : \A c \in CompanyOf(t.url) :
                    c.jobs_count = IF t.failed THEN 0 ELSE countJobs(jobsTable, t.url)

\* A run with two organizations that is done although the recomputation of
\* one failed: the other record carries its count
C15_Witness ==
  /\ run[1].pc = "done"
  /\ \E t1, t2 \in run[1].tasks :
       /\ t1.url # t2.url
       /\ t1.failed /\ ~t2.failed
       /\ \E c \in CompanyOf(t1.url) : c.jobs_count = 0
       /\ \E c \in CompanyOf(t2.url) : c.jobs_count = 1
       /\ countJobs(jobsTable, t1.url) = 1

-----------------------------------------------------------------------------
(* The triggers' answers *)

Settled(r) == r.pc \in {"done", "error"}

\* C16: GET /sync answers a run that threw with an error status: 502 with the
\* upstream status and body when the fetch failed with a response, the
\* generic 500 with the error's message for every other error (missing
\* credential, fetch failure without a response, batch-upsert failure, an
\* error thrown in the loop); it answers a run that returned with 200 and
\* the fetched/filtered/upserted counts, and answers nothing before the run
\* is over.  The schedule's callback never sends or propagates anything.
C16_TriggersAnswer ==
  \A s \in Slots :
    LET r == run[s]
    IN  /\ r.trigger = "cron" => r.response = None
        /\ (r.trigger = "sync" /\ ~Settled(r)) => r.response = None
        /\ (r.trigger = "sync" /\ Settled(r)) =>
             /\ Has(r.response)
             /\ LET res == Val(r.response)
                IN  /\ r.pc = "done" =>
                         /\ res.code = 200
                         /\ res.result = Some([fetched |-> Len(r.jobs),
                                               filtered |-> Len(r.filteredJobs),
                                               upserted |-> Len(r.normalizedJobs)])
                    /\ (r.pc = "error" /\ r.fetchFailed /\ Has(r.fetchErr)) =>
                         /\ res.code = 502
                         /\ res.status = Some(Val(r.fetchErr).status)
                         /\ res.details = Some(Val(r.fetchErr).data)
                    /\ (r.pc = "error" /\ ~(r.fetchFailed /\ Has(r.fetchErr))) =>
                         /\ res.code = 500
                         /\ res.status = None
                         /\ res.details = Some(Val(r.error).message)
                         /\ res.result = None

\* GET /sync answered an upstream 429 with 502 carrying status and body
C16_Witness ==
  /\ run[1].trigger = "sync"
  /\ run[1].pc = "error"
  /\ run[1].fetchErr = Some([status |-> 429, data |-> "Too many requests"])
  /\ Has(run[1].response)
  /\ Val(run[1].response).code = 502
  /\ Val(run[1].response).status = Some(429)

\* GET /sync answered a batch-upsert failure with the generic response
C16_WitnessGeneric ==
  /\ run[1].pc = "error"
  /\ run[1].upsertFailed
  /\ run[1].trigger = "sync"
  /\ Val(run[1].response).code = 500

-----------------------------------------------------------------------------
(* The keyword filter *)

Returned(fn) == call.fn = fn /\ call.phase = "returned"

\* The text the filter searches: title and description, absent ones empty,
\* joined by a space, lowercased
FilterText(job) ==
  toLowerCase((IF Has(job.title) THEN Val(job.title) ELSE <<>>) \o <<" ">>
              \o (IF Has(job.description_text) THEN Val(job.description_text) ELSE <<>>))

HasExcludeKeyword(text) ==
  \E k \in 1..Len(EXCLUDE_KEYWORDS) : includes(text, EXCLUDE_KEYWORDS[k])

HasIncludeKeyword(text) ==
  \E k \in 1..Len(CYBER_KEYWORDS) : includes(text, CYBER_KEYWORDS[k])

\* C17: isCybersecurityJob rejects a listing whose lowercased title and
\* description contain an exclude keyword, whether or not they contain an
\* include keyword; without an exclude keyword it accepts exactly the
\* listings that contain an include keyword; an absent title or description
\* counts as the empty string (a listing with neither is rejected, and one
\* with an absent title is judged on its description alone).
C17_ExclusionPrecedence ==
  Returned("isCybersecurityJob") =>
    LET job == call.arg
        text == FilterText(job)
    IN  /\ HasExcludeKeyword(text) => call.ret = FALSE
        /\ ~HasExcludeKeyword(text) => (call.ret <=> HasIncludeKeyword(text))
        /\ (~Has(job.title) /\ ~Has(job.description_text)) => call.ret = FALSE
        /\ ~Has(job.title) =>
             call.ret = isCybersecurityJob([job EXCEPT !.title = Some(<<>>)])
        /\ ~Has(job.description_text) =>
             call.ret = isCybersecurityJob([job EXCEPT !.description_text = Some(<<>>)])
        /\ (job.title = Some(TitleSoc) /\ ~Has(job.description_text)) => call.ret = TRUE
        /\ (job.title = Some(TitleBarista) /\ ~Has(job.description_text)) => call.ret = FALSE

\* A listing with both an include and an exclude keyword was rejected
C17_Witness ==
  /\ Returned("isCybersecurityJob")
  /\ HasExcludeKeyword(FilterText(call.arg))
  /\ HasIncludeKeyword(FilterText(call.arg))
  /\ call.ret = FALSE

\* A listing without title was accepted on its description
C17_WitnessAbsentTitle ==
  /\ Returned("isCybersecurityJob")
  /\ ~Has(call.arg.title)
  /\ call.ret = TRUE

-----------------------------------------------------------------------------
(* The salary normalizer *)

\* The first candidate of the sequence that is not null, if any
RECURSIVE FirstNonNull(_)
FirstNonNull(candidates) ==
  IF candidates = <<>> THEN Null
  ELSE IF Head(candidates).kind # "null" THEN Head(candidates)
  ELSE FirstNonNull(Tail(candidates))

NestedOf(job) ==
  IF job.salary_raw.kind = "object" /\ job.salary_raw.value.kind = "object"
  THEN job.salary_raw.value ELSE NoMonetaryValue

Resolved(res) ==
  \/ TruthyValue(res.min) \/ TruthyValue(res.max)
  \/ TruthyValue(res.currency) \/ TruthyValue(res.period)

\* C18: normalizeSalary resolves min, max, currency and period each as the
\* first non-null candidate of a fixed chain: the flat fields, then the
\* nested raw salary object, then the AI-derived fields.  A flat salary_min
\* wins over a nested value.minValue; AI-derived min and max are used when
\* they are the only salary signal (min falls back to the nested single
\* value and then the AI-derived single value when its chain is empty, and
\* min and max are read as numbers, digits and dots only).  When none of the
\* four resolves and the raw salary is a string, the result is that string
\* cut to SALARY_MAX characters, not JSON.
C18_SalaryPriorityChain ==
  (Returned("normalizeSalary") /\ call.ret.kind # "throws") =>
    LET job == call.arg
        res == call.ret
        nested == NestedOf(job)
        min == FirstNonNull(<<job.salary_min, job.salary_min_derived, job.salary_range_min,
                              job.salary_from, nested.minValue, job.ai_salary_minvalue,
                              nested.value, job.ai_salary_value>>)
        max == FirstNonNull(<<job.salary_max, job.salary_max_derived, job.salary_range_max,
                              job.salary_to, nested.maxValue, job.ai_salary_maxvalue>>)
        currency == FirstNonNull(<<job.salary_currency, job.currency,
                                   job.compensation_currency,
                                   IF job.salary_raw.kind = "object"
                                   THEN job.salary_raw.currency ELSE Null,
                                   job.ai_salary_currency>>)
        period == FirstNonNull(<<job.salary_period, job.salary_unit,
                                 job.compensation_period, nested.unitText,
                                 job.ai_salary_unittext>>)
    IN  /\ res.kind = "json" =>
             /\ res.min = OrUndefined(toNumber(min))
             /\ res.max = OrUndefined(toNumber(max))
             /\ res.currency = OrUndefined(currency)
             /\ res.period = OrUndefined(period)
             /\ Resolved(res)
        /\ (job.salary_min = Num(50000) /\ nested.minValue = Num(60000)) =>
             res.min = Num(50000)
        /\ (job.salary_min = Null /\ nested.minValue = Num(60000)) => res.min = Num(60000)
        /\ (job.salary_min.kind = "string" /\ res.kind = "json") => res.min = Num(50000)
        /\ (job.salary_min = Null /\ job.salary_raw.kind # "object"
            /\ job.ai_salary_minvalue = Num(70000)) =>
             /\ res.kind = "json"
             /\ res.min = Num(70000)
             /\ res.max = job.ai_salary_maxvalue
        /\ (job.salary_raw.kind = "string"
            /\ ~(TruthyValue(toNumber(min)) \/ TruthyValue(toNumber(max))
                 \/ TruthyValue(currency) \/ TruthyValue(period))) =>
             /\ res.kind = "text"
             /\ res.text = SubSeq(job.salary_raw.text, 1,
                                  IF Len(job.salary_raw.text) < SALARY_MAX
                                  THEN Len(job.salary_raw.text) ELSE SALARY_MAX)
             /\ Len(res.text) <= SALARY_MAX

\* A flat salary_min won over a nested minValue
C18_Witness ==
  /\ Returned("normalizeSalary")
  /\ call.arg.salary_min = Num(50000)
  /\ NestedOf(call.arg).minValue = Num(60000)
  /\ call.ret.kind = "json"
  /\ call.ret.min = Num(50000)
  /\ call.ret.max = Num(90000)

\* AI-derived min and max were the only signal and were used
C18_WitnessAiOnly ==
  /\ Returned("normalizeSalary")
  /\ call.arg.salary_min = Null /\ call.arg.salary_raw = NoRaw
  /\ call.arg.salary_currency = Null
  /\ call.ret.kind = "json"
  /\ call.ret.min = Num(70000) /\ call.ret.max = Num(80000)

\* A long raw string came back cut, nothing else having resolved
C18_WitnessRawString ==
  /\ Returned("normalizeSalary")
  /\ call.ret.kind = "text"
  /\ Len(call.arg.salary_raw.text) > SALARY_MAX
  /\ Len(call.ret.text) = SALARY_MAX

\* C19: normalizeSalary never fails: for every listing, a raw salary that is
\* a malformed or circular object included, and whether or not any of min,
\* max, currency, period resolved, it returns a string or null and throws
\* nothing.
C19_SalaryNeverThrows ==
  Returned("normalizeSalary") => call.ret.kind \in {"null", "text", "json", "jsonOfRaw"}

-----------------------------------------------------------------------------
(* The category classifier *)

Categories == {JOB_CATEGORIES[k] : k \in 1..Len(JOB_CATEGORIES)}

\* The completion's content as the classifier reads it: trimmed, uppercased
Answer(completion) == toUpperCase(trim(Val(completion.content)))

\* C20: whatever the completion (failed, without content, empty, malformed,
\* unrecognized), classifyJobCategory returns a member of JOB_CATEGORIES or
\* null: a category only when the credential is set, the call answered and
\* the trimmed, uppercased content equals or contains that category (the
\* first such category of the list), null otherwise; so the category of
\* every record and of every stored row is in JOB_CATEGORIES or null.
C20_CategoryInSetOrNull ==
  /\ Returned("classifyJobCategory") =>
       LET completion == call.arg
           answered == env.GROQ_API_KEY /\ ~completion.failed /\ Has(completion.content)
       IN  /\ call.ret = None \/ (Has(call.ret) /\ Val(call.ret) \in Categories)
           /\ Has(call.ret) =>
                /\ answered
                /\ Answer(completion) = Val(call.ret)
                   \/ includes(Answer(completion), Val(call.ret))
                /\ \A k \in 1..Len(JOB_CATEGORIES) :
                     includes(Answer(completion), JOB_CATEGORIES[k]) =>
                       \E m \in 1..k : JOB_CATEGORIES[m] = Val(call.ret)
           /\ call.ret = None =>
                (answered => \A c \in Categories : ~includes(Answer(completion), c))
           /\ (answered /\ Answer(completion) = JOB_CATEGORIES[4]) =>
                call.ret = Some(JOB_CATEGORIES[4])
           /\ (answered /\ Val(completion.content) = <<>>) => call.ret = None
  /\ \A s \in Slots : \A k \in 1..Len(run[s].normalizedJobs) :
       LET category == run[s].normalizedJobs[k].category
       IN  category = None \/ Val(category) \in Categories
  /\ \A row \in jobsTable : row.category = None \/ Val(row.category) \in Categories

\* A completion that names a category inside a sentence, in mixed case
C20_Witness ==
  /\ Returned("classifyJobCategory")
  /\ Has(call.ret)
  /\ Answer(call.arg) # Val(call.ret)
  /\ Val(call.arg.content) # Answer(call.arg)

\* An unrecognized completion gave null although the call answered
C20_WitnessUnrecognized ==
  /\ Returned("classifyJobCategory")
  /\ env.GROQ_API_KEY /\ ~call.arg.failed /\ Has(call.arg.content)
  /\ Len(Val(call.arg.content)) > 0
  /\ call.ret = None

-----------------------------------------------------------------------------
(* The read endpoints *)

\* The response the last request got is right for the store as it is
ReadAnswer(table, now) ==
  LET res == call.ret
  IN  /\ call.fn = "getJobs" =>
           IF call.ok
           THEN /\ res.code = 200
                /\ Len(res.data) = Cardinality(table)
                /\ {res.data[k] : k \in 1..Len(res.data)} = table
                /\ \A k \in 1..(Len(res.data) - 1) :
                     res.data[k].posted_at >= res.data[k + 1].posted_at
           ELSE res.code = 500
      /\ call.fn = "getJobById" =>
           IF call.ok /\ \E row \in table : row.id = call.arg
           THEN /\ res.code = 200
                /\ Has(res.row)
                /\ Val(res.row) \in table
                /\ Val(res.row).id = call.arg
           ELSE res.code = 404 /\ res.row = None
      /\ call.fn = "getHealth" =>
           res.code = 200 /\ res.status = "ok" /\ res.timestamp = now

\* C21: a request to a read endpoint changes neither table (nor any run):
\* GET /jobs answers with all stored rows, latest posting time first; GET
\* /jobs/:id answers with the row of that id when it exists and with 404
\* when it does not; GET /health answers ok with the time of the request.
\* (When the store returns an error GET /jobs answers 500 and GET /jobs/:id
\* 404.)
C21_ReadsLeaveStore ==
  [][call'.n # call.n =>
       /\ jobsTable' = jobsTable
       /\ companies' = companies
       /\ nextRowId' = nextRowId
       /\ run' = run
       /\ ReadAnswer(jobsTable, clock)']_vars

\* GET /jobs answered with two rows, the later posted first
C21_Witness ==
  /\ call.fn = "getJobs"
  /\ call.ret.code = 200
  /\ Len(call.ret.data) = 2
  /\ call.ret.data[1].posted_at > call.ret.data[2].posted_at
  /\ Cardinality(jobsTable) = 2

\* GET /jobs/:id answered 404 for an id no row has, the table not being empty
C21_WitnessNotFound ==
  /\ call.fn = "getJobById"
  /\ call.ok
  /\ call.ret.code = 404
  /\ jobsTable # {}

-----------------------------------------------------------------------------
(* Overlapping jobs-count refreshes *)

\* The organization URLs either run resolved
TouchedUrls == UNION {ResolvedUrls(run[s]) : s \in Slots}

\* C22: when two invocations that may overlap are both done, every store
\* operation having succeeded, the jobs_count of each company record they
\* touched equals the number of stored rows with that organization URL,
\* whatever the interleaving of their batch upserts and of the count and
\* update steps of their recomputations.
C22_OverlapJobsCountMatches ==
  (BothDone /\ ~storeFailed) =>
    \A c \in companies :
      c.organization_url \in TouchedUrls =>
        c.jobs_count = countJobs(jobsTable, c.organization_url)

\* Two overlapping runs stored one row each for the same organization, no
\* row changed its organization, and the record counts one row: the count
\* one run read before the other's upsert was written after the other's
\* update
C22_StaleCountWritten ==
  /\ Overlapped /\ ~storeFailed
  /\ \A s \in Slots : Len(run[s].normalizedJobs) = 1
  /\ run[1].normalizedJobs[1].organization_url = run[2].normalizedJobs[1].organization_url
  /\ run[1].normalizedJobs[1].external_job_id # run[2].normalizedJobs[1].external_job_id
  /\ \E c \in companies :
       /\ Some(c.organization_url) = run[1].normalizedJobs[1].organization_url
       /\ countJobs(jobsTable, c.organization_url) = 2
       /\ c.jobs_count = 1

-----------------------------------------------------------------------------
(* Job slugs *)

\* s ends with the text t
EndsWith(s, t) == Len(s) >= Len(t) /\ SubSeq(s, Len(s) - Len(t) + 1, Len(s)) = t

\* C23: in every job record a run has produced, the id suffix that ends
\* job_slug is the last 8 characters of the external_job_id of the same
\* record, also when the listing carries no id of its own.
C23_SlugSuffixOfExternalId ==
  \A s \in Slots :
    \A k \in 1..Len(run[s].normalizedJobs) :
      LET rec == run[s].normalizedJobs[k]
      IN  EndsWith(rec.job_slug,
                   <<"-">> \o sliceLast(rec.external_job_id, ID_SUFFIX_LEN))

-----------------------------------------------------------------------------
(* Who writes jobs_count *)

\* The record stored for an organization URL in a table of companies
RecordsOf(table, url) == {c \in table : c.organization_url = url}

\* Run s has issued a company upsert for url in an iteration of its loop
UpsertedCompany(s, url) ==
  \E k \in 1..Len(run[s].trace) :
    run[s].trace[k].op = "companyUpsert" /\ run[s].trace[k].url = url

\* C24: the jobs_count of an existing company record changes only in the
\* update step of an aggregate task, which runs after a successful batch
\* upsert and writes the count the task read; in particular the company
\* upsert of an iteration of the loop leaves the jobs_count of a record
\* that already exists as it was.
C24_OnlyAggregateWritesJobsCount ==
  [][\A c \in companies : \A d \in companies' :
       (d.organization_url = c.organization_url /\ d.jobs_count # c.jobs_count) =>
         \E s \in Slots :
           /\ run[s].pc = "counting"
           /\ ~run[s].upsertFailed
           /\ \E t \in run[s].tasks :
                /\ t.state = "updating"
                /\ t.url = c.organization_url
                /\ d.jobs_count = t.count
                /\ t \notin run'[s].tasks]_vars

\* A later run has upserted again, in its loop and before its batch upsert,
\* a company that an earlier run left with one job: the record was rewritten
\* (its updated_at is new) and still counts one job
C24_Witness ==
  \E s \in Slots : \E c0 \in run[s].companiesAtStart : \E c \in companies :
    /\ run[s].pc \in {"processing", "upserting"}
    /\ UpsertedCompany(s, c0.organization_url)
    /\ c.organization_url = c0.organization_url
    /\ c0.jobs_count >= 1
    /\ c.updated_at > c0.updated_at
    /\ c.jobs_count = c0.jobs_count

=============================================================================
